---- MODULE Spec2Model ----
(***************************************************************************)
(* A model of the storage substrate of libbitcoin-database:                *)
(*   - htdb_slab      : the disk resident chained hash table over slabs    *)
(*   - hdb_shard      : the height indexed, bucket sorted scan log         *)
(*   - blockchain_impl: the sequence lock between the write strand and the *)
(*                      readers                                            *)
(*   - db_interface   : push and pop of a block over the five tables       *)
(*   - mmfile         : the mapped file and its resize                     *)
(*   - record_multimap: the hash table of value lists                      *)
(*   - the write path of sync and store over the mapped file, and sync on  *)
(*     entries of many rows                                                *)
(* Files are modelled as byte sequences: the byte at file offset o is the  *)
(* element o + 1 of the sequence.  Multi byte integers are little endian.  *)
(***************************************************************************)
EXTENDS Integers, Sequences, FiniteSets, TLC

VARIABLES
    \* ---- htdb_slab ----
    header,      \* disk_array buckets: bucket index -> 8 byte chain head
    slab_file,   \* slab_allocator region: [payload_end:8][slabs ...]
    alloc_end,   \* slab_allocator's in-memory payload_end
    st_pc,       \* position inside store(): "idle", "write", "link"
    st_key,      \* store(): the key being stored
    st_val,      \* store(): the value bytes write() will produce
    st_old,      \* store(): old_begin, the bucket value read at the start
    st_pos,      \* store(): new_begin, the position of the new slab
    st_i,        \* store(): bytes of the new slab written so far
    stores,      \* number of store() calls made so far
    crashed,     \* the process was cut and restarted; nothing writes any more
    stack,       \* history: per key, the values stored and not yet unlinked
    unlink_ret,  \* the value the last unlink() returned
    dirty,       \* history: a bucket head was written since the last sync()
    slab_log,    \* history: position and value size of every slab allocated, and
                 \* how many of them the last sync() of the allocator covers
    \* ---- hdb_shard ----
    shard_file,    \* [entries_end:8][heights:8 each][entries ...]
    entries_end,   \* hdb_shard::entries_end_
    rows,          \* hdb_shard::rows_, the rows buffered by add()
    sy_pc,         \* position inside sync(): "idle" or "write"
    sy_height,     \* sync(): the height argument
    sy_writes,     \* sync(): the byte writes still to make, <<offset, byte>>
    adds,          \* number of add() calls made so far
    syncs,         \* number of sync() calls made so far
    unlinks,       \* number of unlink() calls made so far
    sh_crashed,    \* the process was cut and restarted; nothing writes
    assert_failed, \* a BITCOIN_ASSERT of write_buckets did not hold
    live,          \* history: the entries synced and not unlinked since
    in_order,      \* history: every sync was for the height after the live
                   \* entries, every unlink for a height that has a live
                   \* entry before it
    last_op,       \* history: the operation that ran last and its height
    pre_sync,      \* history: entries_end and the scans before sync() began
    \* ---- blockchain_impl sequence lock ----
    seqlock_,         \* blockchain_impl::seqlock_
    w_pc,             \* the write strand: "idle" or "writing"
    w_i,              \* cells the write under way has written
    writes,           \* number of writes begun
    table,            \* the shared data: the value of every cell
    map_gen,          \* the mapping of the file: it changes when it moves
    r_pc,             \* the reader: "idle", "backoff" or "reading"
    r_slock,          \* the reader's snapshot of the counter (slock)
    r_map,            \* the mapping the reader took its pointer from
    r_buf,            \* the cells the reader has copied
    r_overlap,        \* history: a step of a write fell into this read
    r_retried,        \* history: this fetch was put off or thrown away before
    fetches,          \* number of results delivered
    result,           \* history: what the handler got last
    fw_assert_failed, \* the assertion of finish_write did not hold
    \* ---- db_interface ----
    db,               \* the tables blocks, spends, transactions, history, stealth
    disk,             \* every table as its last sync() published it
    active_heights_,  \* db_interface::active_heights_
    push_pc,          \* position inside push(): "idle", "txs" or "sync"
    push_i,           \* push(): transactions looped over, or syncs made
    push_block,       \* push(): the block
    push_from,        \* push(): blocks.last_height() as read at the start
    push_added,       \* history: the history rows this push has added
    pushed,           \* history: the pushes not popped, with the tables before
    popped,           \* history: what the last pop() returned and did
    pushes,           \* number of push() calls made so far
    pops,             \* number of pop() calls made so far
    db_crashes,       \* number of times push() was cut short
    cut,              \* history: the push that was cut short, and the restart
    repeated,         \* history: the push of the block of cut, made again
    \* ---- mmfile ----
    mm_mremap,        \* the build has mremap (MREMAP_MAYMOVE is defined)
    mm_length,        \* the length of the file behind file_handle_
    data_,            \* mmfile::data_
    size_,            \* mmfile::size_
    mm_mapped,        \* the addresses of the mappings of the file that exist
    mm_bases,         \* the highest address a mapping was made at
    mm_end,           \* the end of what the write path has written
    resizes,          \* number of resize() calls made so far
    mm_writes,        \* number of writes made so far
    mm_failed,        \* history: a call of resize has returned false
    mm_last,          \* history: the last call and what it gave
    \* ---- the write path over the mapped file ----
    wp_op,            \* the operation under way: "sync" or "store"
    wp_pc,            \* the statement it is at, 0 when none is under way
    wp_space,         \* the bytes it adds to the file
    wp_ptr,           \* the base pointer it holds (serial, raw_data_)
    wp_resized,       \* it has called resize
    wp_stale,         \* history: a write went through a pointer taken
                      \* before a resize of the same operation
    wp_access,        \* history: the last read or write of the file
    wp_ops,           \* number of operations begun
    \* ---- hdb_shard::sync on entries of many rows ----
    lg_rows,          \* rows_: the number of buffered rows of each bucket
    lg_end,           \* entries_end_
    lg_entries,       \* the headers of the entries written
    lg_adds,          \* number of steps that added rows
    lg_syncs,         \* number of sync() calls made so far
    \* ---- record_multimap ----
    rm_table,         \* the hash table: key -> index of the head of its list
    rm_list,          \* the record_list: the nodes, [next][value]
    rm_stack,         \* history: per key, the values added and not deleted
    rm_adds,          \* number of add() calls made so far
    rm_deletes,       \* number of delete_last() calls made so far
    rm_last,          \* history: the last call and the values before it
    \* ---- simple_chain_impl ----
    sc_blocks,        \* the block table behind interface_: first height and records
    sc_pc,            \* release(): "idle", "loop", "returned" or "fault"
    sc_begin,         \* release(): begin_index
    sc_last,          \* release(): last_height as read at the start
    sc_height,        \* release(): the loop variable height
    sc_released,      \* release(): released_blocks, height and header of each
    sc_pops,          \* release(): number of calls of pop
    sc_empty_pops,    \* history: calls of pop with no block on the chain
    sc_assert_failed, \* an assertion of append or release did not hold
    sc_appends,       \* number of append() calls made so far
    sc_releases,      \* number of release() calls made so far
    \* ---- transaction_pool ----
    stopped_,         \* transaction_pool::stopped_
    buffer_,          \* transaction_pool::buffer_, oldest entry first
    pl_capacity,      \* buffer_.capacity()
    pl_subscribed,    \* the handlers subscribed to the reorganize notification
    pl_ordered,       \* dispatch_.ordered: the calls queued, next first
    pl_validating,    \* the validations started and not yet completed
    pl_confirms,      \* history: per confirm handler, the codes it was called with
    pl_validated,     \* history: per validate handler, the code it was called with
    pl_last,          \* history: the last answer to a handler of the caller
    pl_started,       \* start() has returned
    pl_halts,         \* history: calls of stop() and erroneous notifications
    pl_destroyed,     \* the destructor has run
    pl_stores,        \* number of store() calls made so far
    pl_queries,       \* number of validate(), fetch() and exists() calls so far
    pl_reorgs,        \* number of reorganize notifications so far
    pl_deletes        \* number of direct calls of delete_package so far

slab_vars == <<header, slab_file, alloc_end, st_pc, st_key, st_val, st_old,
               st_pos, st_i, stores, crashed, stack, unlink_ret, dirty,
               slab_log>>

shard_vars == <<shard_file, entries_end, rows, sy_pc, sy_height, sy_writes,
                adds, syncs, unlinks, sh_crashed, assert_failed, live, in_order,
                last_op, pre_sync>>

seqlock_vars == <<seqlock_, w_pc, w_i, writes, table, map_gen, r_pc, r_slock,
                  r_map, r_buf, r_overlap, r_retried, fetches, result,
                  fw_assert_failed>>

db_vars == <<db, disk, active_heights_, push_pc, push_i, push_block, push_from,
             push_added, pushed, popped, pushes, pops, db_crashes, cut,
             repeated>>

mm_vars == <<mm_mremap, mm_length, data_, size_, mm_mapped, mm_bases, mm_end,
             resizes, mm_writes, mm_failed, mm_last>>

wp_vars == <<wp_op, wp_pc, wp_space, wp_ptr, wp_resized, wp_stale, wp_access,
             wp_ops>>

large_vars == <<lg_rows, lg_end, lg_entries, lg_adds, lg_syncs>>

multimap_vars == <<rm_table, rm_list, rm_stack, rm_adds, rm_deletes, rm_last>>

chain_vars == <<sc_blocks, sc_pc, sc_begin, sc_last, sc_height, sc_released,
                sc_pops, sc_empty_pops, sc_assert_failed, sc_appends,
                sc_releases>>

pool_vars == <<stopped_, buffer_, pl_capacity, pl_subscribed, pl_ordered,
               pl_validating, pl_confirms, pl_validated, pl_last, pl_started,
               pl_halts, pl_destroyed, pl_stores, pl_queries, pl_reorgs,
               pl_deletes>>

\* What the operations of htdb_slab leave alone.
not_slab_vars == <<shard_vars, seqlock_vars, db_vars, mm_vars, multimap_vars,
    wp_vars, large_vars,
    chain_vars,
    pool_vars>>

\* What the operations of hdb_shard leave alone.
not_shard_vars == <<slab_vars, seqlock_vars, db_vars, mm_vars, multimap_vars,
    wp_vars, large_vars,
    chain_vars,
    pool_vars>>

\* What the steps of the sequence lock leave alone.
not_seqlock_vars == <<slab_vars, shard_vars, db_vars, mm_vars, multimap_vars,
    wp_vars, large_vars,
    chain_vars,
    pool_vars>>

\* What push and pop leave alone.
not_db_vars == <<slab_vars, shard_vars, seqlock_vars, mm_vars, multimap_vars,
    wp_vars, large_vars,
    chain_vars,
    pool_vars>>

\* What mmfile's operations leave alone.
not_mm_vars == <<slab_vars, shard_vars, seqlock_vars, db_vars, multimap_vars,
    wp_vars, large_vars,
    chain_vars,
    pool_vars>>

\* What the write path leaves alone, the mapped file apart.
not_wp_vars == <<slab_vars, shard_vars, seqlock_vars, db_vars, multimap_vars, large_vars,
    chain_vars,
    pool_vars>>

\* What sync on entries of many rows leaves alone.
not_large_vars == <<slab_vars, shard_vars, seqlock_vars, db_vars, mm_vars,
                    wp_vars, multimap_vars,
    chain_vars,
    pool_vars>>

\* What the operations of record_multimap leave alone.
not_multimap_vars == <<slab_vars, shard_vars, seqlock_vars, db_vars, mm_vars,
    wp_vars, large_vars,
    chain_vars,
    pool_vars>>

\* What append and release leave alone.
not_chain_vars == <<slab_vars, shard_vars, seqlock_vars, db_vars, mm_vars, wp_vars, large_vars, multimap_vars,
    pool_vars>>

\* What the operations of transaction_pool leave alone.
not_pool_vars == <<slab_vars, shard_vars, seqlock_vars, db_vars, mm_vars,
                   wp_vars, large_vars, multimap_vars, chain_vars>>

vars == <<slab_vars, shard_vars, seqlock_vars, db_vars, mm_vars, wp_vars,
         multimap_vars, large_vars,
    chain_vars,
    pool_vars>>

(***************************************************************************)
(* Bytes and little endian integers.                                       *)
(***************************************************************************)
Byte == 0..255

\* A position too large for the files of the model (any value >= 2^24).
Huge == 2^30

Zeros(n) == [i \in 1..n |-> 0]

\* serializer::write_8_bytes_little_endian, for values below 2^24.
to_little_endian(n) ==
    [i \in 1..8 |-> IF i = 1 THEN n % 256
                    ELSE IF i = 2 THEN (n \div 256) % 256
                    ELSE IF i = 3 THEN (n \div 65536) % 256
                    ELSE 0]

\* from_little_endian_unsafe<file_offset>: values of 2^24 and more are all
\* beyond every file of the model and are read as Huge.
from_little_endian(b) ==
    IF \E i \in 4..8 : b[i] # 0 THEN Huge
    ELSE b[1] + 256 * b[2] + 65536 * b[3]

WriteAt(f, off, bytes) ==
    [i \in 1..Len(f) |->
        IF i > off /\ i <= off + Len(bytes) THEN bytes[i - off] ELSE f[i]]

ReadAt(f, off, n) == [i \in 1..n |-> f[off + i]]

(***************************************************************************)
(* htdb_slab                                                               *)
(***************************************************************************)
\* std::tuple_size<HashType>::value of the instantiation modelled.
hash_size == 1
\* Keys are the byte arrays <<1>> .. <<MaxKey>>.
MaxKey == 3
\* header_.size(): the number of buckets of the disk_array.
buckets == 2
\* store() calls per behaviour of SpecSlab.
MaxStores == 3
\* store() calls per behaviour of SpecSlabCut, where store() runs write by
\* write and the power may be cut.
MaxCutStores == 2
\* Steps get() walks before it is taken not to terminate.
MaxWalk == MaxStores + MaxCutStores

Keys == {<<k>> : k \in 1..MaxKey}
\* The values write() produces; their lengths are the value_size arguments.
Values == {<<1>>, <<2, 2>>}

\* disk_array::empty, the value of a bucket that heads no chain.
empty == [i \in 1..8 |-> 255]

\* get() returns nullptr when nothing is found.
nullptr == 0
\* The outcome of dereferencing a position outside the file, or of a walk
\* that does not end: undefined behaviour, equal to no expected result.
Wild == 0 - 1

value_begin == hash_size + 8

\* remainder(key, divisor): the key read as an integer, modulo divisor.
remainder(key, divisor) == key[1] % divisor

bucket_index(key) == remainder(key, buckets)

read_bucket_value(hdr, key) == hdr[bucket_index(key)]

\* slab_allocator::get_slab: a position is usable when the item header
\* it names lies inside the file.
InFile(file, p) == p + value_begin <= Len(file)

\* htdb_slab_list_item::compare
compare(file, p, key) == ReadAt(file, p, hash_size) = key

\* htdb_slab_list_item::next_position
next_position(file, p) == ReadAt(file, p + hash_size, 8)

\* Mutant of write_next_position: the offset of next inside the item is
\* left out, so the key bytes are overwritten.
write_next_position_at_key(file, p, next) == WriteAt(file, p, next)

\* htdb_slab_list_item::write_next_position
write_next_position(file, p, next) == WriteAt(file, p + hash_size, next)

\* htdb_slab::get: the data pointer of the first item of the chain whose
\* key matches, as an offset into the allocator region.
RECURSIVE get_walk(_, _, _, _)
get_walk(file, current, key, fuel) ==
    IF current = empty THEN nullptr
    ELSE IF fuel = 0 THEN Wild
    ELSE LET p == from_little_endian(current) IN
         IF ~InFile(file, p) THEN Wild
         ELSE IF compare(file, p, key) THEN p + value_begin
         ELSE get_walk(file, next_position(file, p), key, fuel - 1)

get(hdr, file, key) ==
    get_walk(file, read_bucket_value(hdr, key), key, MaxWalk)

\* The bytes a caller reads through the pointer get() returned.
Deref(file, ptr, n) ==
    IF ptr = Wild \/ ptr = nullptr \/ ptr + n > Len(file) THEN <<Wild>>
    ELSE ReadAt(file, ptr, n)

WildPos == <<Wild>>

\* The chain of a bucket: the positions (8 byte values) met from the head
\* up to the terminator; a walk that leaves the file or does not end
\* yields WildPos as its last element.
RECURSIVE chain_walk(_, _, _)
chain_walk(file, current, fuel) ==
    IF current = empty THEN <<>>
    ELSE IF fuel = 0 THEN <<WildPos>>
    ELSE LET p == from_little_endian(current) IN
         IF ~InFile(file, p) THEN <<current, WildPos>>
         ELSE <<current>> \o chain_walk(file, next_position(file, p), fuel - 1)

Chain(hdr, file, b) == chain_walk(file, hdr[b], MaxWalk)

\* slab_allocator::new_slab grows the file when the slab does not fit:
\* max(current * 3 / 2, required).
Max2(a, b) == IF a >= b THEN a ELSE b

grow(file, required) ==
    IF required <= Len(file) THEN file
    ELSE file \o Zeros(Max2((Len(file) * 3) \div 2, required) - Len(file))

\* Mutant of slab_size: the slab has room for the value only.
slab_size_of_value(key, value_size) == value_size

\* htdb_slab_list_item::create: info_size = key.size() + 8 and
\* slab_size = info_size + value_size, the size asked of new_slab.
slab_size(key, value_size) == (Len(key) + 8) + value_size

\* The history with one more slab, allocated at position for a value of
\* value_size bytes.
allocated(log, position, value_size) ==
    [log EXCEPT !.slabs =
        Append(@, [position |-> position, value_size |-> value_size])]

\* Mutant of create_bytes: the fields are written in the wrong order.
create_bytes_next_first(key, next) == next \o key

\* Mutant of create_bytes: next is written as 0, not as the prior head.
create_bytes_next_zero(key, next) == key \o to_little_endian(0)

\* htdb_slab_list_item::create writes the key, then next.
create_bytes(key, next) == key \o next

\* Mutant of link: the bucket index of the key is ignored.
link_first_bucket(hdr, key, begin) == [hdr EXCEPT ![0] = begin]

\* htdb_slab::link: header_.write(bucket_index(key), begin).
link(hdr, key, begin) == [hdr EXCEPT ![bucket_index(key)] = begin]

\* Mutant of StoreBegin: the bucket head is written before the new item.
StoreBeginLinkFirst(key, val) ==
    /\ ~crashed
    /\ st_pc = "idle"
    /\ stores < MaxCutStores
    /\ st_key' = key
    /\ st_val' = val
    /\ st_old' = read_bucket_value(header, key)
    /\ st_pos' = alloc_end
    /\ alloc_end' = alloc_end + slab_size(key, Len(val))
    /\ slab_file' = grow(slab_file, alloc_end + slab_size(key, Len(val)))
    /\ header' = link(header, key, to_little_endian(alloc_end))
    /\ st_i' = 0
    /\ st_pc' = "write"
    /\ stores' = stores + 1
    /\ UNCHANGED <<crashed, stack, unlink_ret, dirty>>
    /\ slab_log' = allocated(slab_log, alloc_end, Len(val))
    /\ UNCHANGED not_slab_vars

\* htdb_slab::store, first part: read the bucket, allocate the slab.
StoreBegin(key, val) ==
    /\ ~crashed
    /\ st_pc = "idle"
    /\ stores < MaxCutStores
    /\ st_key' = key
    /\ st_val' = val
    /\ st_old' = read_bucket_value(header, key)
    /\ st_pos' = alloc_end
    /\ alloc_end' = alloc_end + slab_size(key, Len(val))
    /\ slab_file' = grow(slab_file, alloc_end + slab_size(key, Len(val)))
    /\ st_i' = 0
    /\ st_pc' = "write"
    /\ stores' = stores + 1
    /\ UNCHANGED <<header, crashed, stack, unlink_ret, dirty>>
    /\ slab_log' = allocated(slab_log, alloc_end, Len(val))
    /\ UNCHANGED not_slab_vars

\* The bytes of the new slab in the order store() writes them:
\* create() writes key and next, then write(item.data()) the value.
slab_bytes(key, next, val) == create_bytes(key, next) \o val

\* htdb_slab::store, one byte of the new slab.
StoreWriteByte ==
    /\ ~crashed
    /\ st_pc = "write"
    /\ LET bytes == slab_bytes(st_key, st_old, st_val) IN
       /\ slab_file' = WriteAt(slab_file, st_pos + st_i, <<bytes[st_i + 1]>>)
       /\ st_i' = st_i + 1
       /\ st_pc' = IF st_i + 1 = Len(bytes) THEN "link" ELSE "write"
    /\ UNCHANGED <<header, alloc_end, st_key, st_val, st_old, st_pos, stores,
                   crashed, stack, unlink_ret, dirty>>
    /\ UNCHANGED slab_log
    /\ UNCHANGED not_slab_vars

\* htdb_slab::store, last part: link the record to the header.
StoreLink ==
    /\ ~crashed
    /\ st_pc = "link"
    /\ header' = link(header, st_key, to_little_endian(st_pos))
    /\ st_pc' = "idle"
    /\ stack' = [stack EXCEPT ![st_key] = <<st_val>> \o @]
    /\ dirty' = TRUE
    /\ st_key' = <<>>
    /\ st_val' = <<>>
    /\ st_old' = empty
    /\ st_pos' = 0
    /\ st_i' = 0
    /\ UNCHANGED <<slab_file, alloc_end, stores, crashed, unlink_ret>>
    /\ UNCHANGED slab_log
    /\ UNCHANGED not_slab_vars

\* htdb_slab::store as one step of the single writer: the steps above in
\* their order, with nothing in between.
Store(key, val) ==
    /\ ~crashed
    /\ st_pc = "idle"
    /\ stores < MaxStores
    /\ LET old_begin == read_bucket_value(header, key)
           new_begin == alloc_end
           size == slab_size(key, Len(val))
       IN /\ alloc_end' = alloc_end + size
          /\ slab_file' = WriteAt(grow(slab_file, alloc_end + size),
                              new_begin, slab_bytes(key, old_begin, val))
          /\ header' = link(header, key, to_little_endian(new_begin))
    /\ stores' = stores + 1
    /\ stack' = [stack EXCEPT ![key] = <<val>> \o @]
    /\ dirty' = TRUE
    /\ UNCHANGED <<st_pc, st_key, st_val, st_old, st_pos, st_i, crashed,
                   unlink_ret>>
    /\ slab_log' = allocated(slab_log, alloc_end, Len(val))
    /\ UNCHANGED not_slab_vars

\* slab_allocator::sync publishes payload_end in the first 8 bytes.
AllocSync ==
    /\ ~crashed
    /\ st_pc = "idle"
    /\ slab_file' = WriteAt(slab_file, 0, to_little_endian(alloc_end))
    /\ dirty' = FALSE
    /\ UNCHANGED <<header, alloc_end, st_pc, st_key, st_val, st_old, st_pos,
                   st_i, stores, crashed, stack, unlink_ret>>
    /\ slab_log' = [slab_log EXCEPT !.synced = Len(slab_log.slabs)]
    /\ UNCHANGED not_slab_vars

\* htdb_slab::unlink: find the first item of the chain whose key matches.
\* The result is <<previous, current>>: the position of the matching item
\* and of the item before it (empty when the match heads the chain), or
\* <<empty, empty>> when no item matches.
RECURSIVE find_item(_, _, _, _, _)
find_item(file, previous, current, key, fuel) ==
    IF current = empty \/ fuel = 0 THEN <<empty, empty>>
    ELSE LET p == from_little_endian(current) IN
         IF ~InFile(file, p) THEN <<empty, empty>>
         ELSE IF compare(file, p, key) THEN <<previous, current>>
         ELSE find_item(file, current, next_position(file, p), key, fuel - 1)

\* htdb_slab::release: the predecessor's next takes the item's next.
release(file, item, previous) ==
    write_next_position(file, from_little_endian(previous),
        next_position(file, from_little_endian(item)))

\* htdb_slab::unlink: splice the first matching item out of its chain;
\* false when there is none.
Unlink(key) ==
    /\ ~crashed
    /\ st_pc = "idle"
    /\ UNCHANGED <<alloc_end, st_pc, st_key, st_val, st_old, st_pos, st_i,
                   stores, crashed, dirty>>
    /\ LET found == find_item(slab_file, empty,
                        read_bucket_value(header, key), key, MaxWalk)
           previous == found[1]
           item == found[2]
       IN IF item = empty
          THEN /\ unlink_ret' = FALSE
               /\ UNCHANGED <<header, slab_file, stack>>
          ELSE /\ unlink_ret' = TRUE
               /\ stack' = [stack EXCEPT ![key] = Tail(@)]
               /\ IF previous = empty
                  THEN /\ header' = link(header, key,
                              next_position(slab_file, from_little_endian(item)))
                       /\ UNCHANGED slab_file
                  ELSE /\ slab_file' = release(slab_file, item, previous)
                       /\ UNCHANGED header
    /\ UNCHANGED slab_log
    /\ UNCHANGED not_slab_vars

\* slab_allocator::start reads payload_end from the first 8 bytes.
alloc_start(file) == from_little_endian(ReadAt(file, 0, 8))

\* A power cut at any point, followed by a restart: the files keep the
\* bytes written so far, the allocator starts from the persisted
\* payload_end, and nothing is written afterwards.  st_pc keeps the place
\* at which a store was cut.
Crash ==
    /\ ~crashed
    /\ crashed' = TRUE
    /\ alloc_end' = alloc_start(slab_file)
    /\ UNCHANGED <<header, slab_file, st_pc, st_key, st_val, st_old, st_pos,
                   st_i, stores, stack, unlink_ret, dirty>>
    /\ UNCHANGED slab_log
    /\ UNCHANGED not_slab_vars

InitSlab ==
    /\ header = [b \in 0..(buckets - 1) |-> empty]
    /\ slab_file = to_little_endian(8)
    /\ alloc_end = 8
    /\ st_pc = "idle"
    /\ st_key = <<>>
    /\ st_val = <<>>
    /\ st_old = empty
    /\ st_pos = 0
    /\ st_i = 0
    /\ stores = 0
    /\ crashed = FALSE
    /\ stack = [k \in Keys |-> <<>>]
    /\ unlink_ret = FALSE
    /\ dirty = FALSE
    /\ slab_log = [slabs |-> <<>>, synced |-> 0]

\* The single writer: any sequence of store and unlink operations.
NextSlab ==
    \/ \E key \in Keys, val \in Values : Store(key, val)
    \/ \E key \in Keys : Unlink(key)

\* The single writer with store() taken write by write, the batched
\* allocator sync(), and a power cut possible at any point.
NextSlabCut ==
    \/ \E key \in Keys, val \in Values : StoreBegin(key, val)
    \/ StoreWriteByte
    \/ StoreLink
    \/ \E key \in Keys : Unlink(key)
    \/ AllocSync
    \/ Crash

(***************************************************************************)
(* Properties of htdb_slab                                                 *)
(***************************************************************************)
TopLen(k) == IF stack[k] = <<>> THEN 0 ELSE Len(Head(stack[k]))

\* The positions of the items of a chain that hold key k.
Holds(file, pos, k) ==
    pos # WildPos /\ compare(file, from_little_endian(pos), k)

RemoveAt(seq, i) == SubSeq(seq, 1, i - 1) \o SubSeq(seq, i + 1, Len(seq))

\* C1: under a single writer, at every point get(k) returns the value most
\* recently stored for k and not unlinked since (a later store of the same
\* key shadows the earlier one), and nullptr when there is none.
C1_GetReturnsLatest ==
    \A k \in Keys :
        IF stack[k] = <<>>
        THEN get(header, slab_file, k) = nullptr
        ELSE Deref(slab_file, get(header, slab_file, k), TopLen(k))
                = Head(stack[k])

\* C1 witness: two keys of one bucket are both stored, one of them was
\* stored twice with different values, and an unlink has removed a node.
C1_Witness ==
    /\ st_pc = "idle"
    /\ unlink_ret
    /\ \E k1, k2 \in Keys :
        /\ k1 # k2
        /\ bucket_index(k1) = bucket_index(k2)
        /\ stack[k1] # <<>>
        /\ stack[k2] # <<>>
        /\ get(header, slab_file, k1) # get(header, slab_file, k2)

\* Every bucket head and every next of every chain is a position below
\* the payload_end found in the file header, and every chain ends.
NoDangling ==
    \A b \in 0..(buckets - 1) :
        \A i \in 1..Len(Chain(header, slab_file, b)) :
            LET pos == Chain(header, slab_file, b)[i] IN
            /\ pos # WildPos
            /\ from_little_endian(pos) >= 8
            /\ from_little_endian(pos) < alloc_start(slab_file)

\* C3 as claimed: after a power cut at any point and a restart without
\* further writes, no bucket head and no next points at or beyond the
\* persisted payload_end.
C3_Original_NoDanglingAfterCrash == crashed => NoDangling

\* C3 as amended: the same, for a power cut at a point where no store has
\* written a bucket head since the last allocator sync().
C3_NoDanglingAfterSyncedCrash == (crashed /\ ~dirty) => NoDangling

\* C3 witness: a store was cut while it wrote its slab, after an earlier
\* store had been linked and synced.
C3_Witness ==
    /\ crashed
    /\ ~dirty
    /\ st_pc = "write"
    /\ st_i > hash_size
    /\ header[bucket_index(st_key)] # empty

\* C4: during store() the bucket head is written only after key and next
\* of the new item are in the file, next holding the prior head.  No step
\* of store() changes what get() returns for any key, except that the
\* last step makes get() of the stored key return the new value; and no
\* step changes a chain, except that the last step puts the new item in
\* front of the chain of its bucket.
C4_StoreStep ==
    LET linking == st_pc = "link" IN
    /\ \A k \in Keys :
        \/ /\ get(header', slab_file', k) = get(header, slab_file, k)
           /\ Deref(slab_file', get(header', slab_file', k), TopLen(k))
                = Deref(slab_file, get(header, slab_file, k), TopLen(k))
        \/ /\ linking
           /\ k = st_key
           /\ Deref(slab_file', get(header', slab_file', k), Len(st_val))
                = st_val
    /\ \A b \in 0..(buckets - 1) :
        \/ Chain(header', slab_file', b) = Chain(header, slab_file, b)
        \/ /\ linking
           /\ b = bucket_index(st_key)
           /\ Chain(header', slab_file', b)
                = <<to_little_endian(st_pos)>> \o Chain(header, slab_file, b)
    /\ header' # header =>
        /\ linking
        /\ st_old = read_bucket_value(header, st_key)
        /\ ReadAt(slab_file, st_pos, value_begin) = st_key \o st_old

C4_StoreInterruptedKeepsChains ==
    [][(~crashed' /\ (st_pc # "idle" \/ st_pc' # "idle")) => C4_StoreStep]_vars

\* C4 witness: a store was cut after its slab was written and before the
\* bucket head was, in a bucket that already held another key.
C4_Witness ==
    /\ crashed
    /\ st_pc = "link"
    /\ \E k \in Keys :
        /\ k # st_key
        /\ bucket_index(k) = bucket_index(st_key)
        /\ stack[k] # <<>>

\* Every chain ends, and next of its last item is `term`; get() ends too.
ChainsEndIn(term) ==
    /\ \A b \in 0..(buckets - 1) :
        LET c == Chain(header, slab_file, b) IN
        c # <<>> =>
            /\ \A i \in 1..Len(c) : c[i] # WildPos
            /\ next_position(slab_file, from_little_endian(c[Len(c)])) = term
    /\ \A k \in Keys : get(header, slab_file, k) # Wild

\* C5 as claimed: every live chain ends in the value 0, the next of its
\* last item.
C5_Original_ChainsEndInZero == ~crashed => ChainsEndIn(to_little_endian(0))

\* C5 as amended: every live chain ends in header_.empty, the all ones
\* value of an empty bucket, which the first store into the bucket copied
\* into next of its item; get() stops walking when it reads that value.
C5_ChainsEndInEmpty == ~crashed => ChainsEndIn(empty)

\* C5 witness: a chain of two items or more.
C5_Witness ==
    /\ ~crashed
    /\ \E b \in 0..(buckets - 1) : Len(Chain(header, slab_file, b)) >= 2

\* C6: unlink(k) returns true and removes exactly the first item of the
\* chain whose key is k, or returns false and changes nothing when there
\* is none; get() of every other key returns what it returned before.
C6_UnlinkStep(k) ==
    LET b == bucket_index(k)
        before == Chain(header, slab_file, b)
        after == Chain(header', slab_file', b)
        hits == {i \in 1..Len(before) : Holds(slab_file, before[i], k)}
    IN
    IF hits = {}
    THEN /\ unlink_ret' = FALSE
         /\ header' = header
         /\ slab_file' = slab_file
    ELSE /\ unlink_ret' = TRUE
         /\ after = RemoveAt(before,
                       CHOOSE i \in hits : \A j \in hits : i <= j)
         /\ \A b2 \in 0..(buckets - 1) \ {b} :
              Chain(header', slab_file', b2) = Chain(header, slab_file, b2)
         /\ \A k2 \in Keys \ {k} :
              LET found == get(header, slab_file, k2) IN
              /\ get(header', slab_file', k2) = found
              /\ Deref(slab_file', found, TopLen(k2))
                   = Deref(slab_file, found, TopLen(k2))

C6_UnlinkFrame == [][\A k \in Keys : Unlink(k) => C6_UnlinkStep(k)]_vars

\* C6 witness: an unlink returned true and left, in the bucket of the key
\* it removed, a chain of two items: it removed one of three.
C6_Witness ==
    /\ st_pc = "idle"
    /\ ~crashed
    /\ unlink_ret
    /\ stores >= 3
    /\ \E b \in 0..(buckets - 1) : Len(Chain(header, slab_file, b)) = 2

(***************************************************************************)
(* hdb_shard: one shard file of the stealth database                       *)
(*   src/src/database/hdb_shard.cpp                                        *)
(*                                                                         *)
(* File: [entries_end:8][heights[shard_max_entries]:8 each][entries ...]   *)
(* Entry: [row_count:2][buckets[number_buckets]:2 each][rows ...]          *)
(* Row: [scan key: scan_size bytes][value: row_value_size bytes]           *)
(* An address_bitset (boost::dynamic_bitset<uint8_t>) is the sequence of   *)
(* its bits, bit 0 first.                                                  *)
(***************************************************************************)

\* hdb_shard_settings, scaled down: a key of one byte of which six bits
\* select the shard, so two bits are scanned; one of them selects the
\* bucket.
settings ==
    [ shard_max_entries |-> 3,
      total_key_size |-> 1,
      sharded_bitsize |-> 6,
      bucket_bitsize |-> 1,
      row_value_size |-> 1 ]

\* Bounds on the runs explored: add() and sync() calls with every
\* operation one step, and with sync() taken write by write.
MaxAdds == 2

MaxSyncs == 2

MaxCutAdds == 2

MaxCutSyncs == 2

MaxUnlinks == 2

MaxCutUnlinks == 1

scan_bitsize == settings.total_key_size * 8 - settings.sharded_bitsize

scan_size == (scan_bitsize - 1) \div 8 + 1

number_buckets == 2 ^ settings.bucket_bitsize

row_size == scan_size + settings.row_value_size

entry_header_size == 2 + 2 * number_buckets

initial_entries_end == 8 + 8 * settings.shard_max_entries

Bits == {0, 1}

\* The scan keys add() accepts, and the prefixes scan() accepts.
ScanKeys == [1..scan_bitsize -> Bits]

Prefixes == UNION {[1..n -> Bits] : n \in 0..scan_bitsize}

Heights == 0..(settings.shard_max_entries - 1)

\* The value of the n-th add(): row_value_size bytes that identify it.
\* No operation of the shard looks into a value.
RowValue(n) == [i \in 1..settings.row_value_size |-> n]

\* serializer::write_2_bytes of a value converted to uint16_t.
to_little_endian_2(n) == <<n % 256, (n \div 256) % 256>>

from_little_endian_2(b) == b[1] + 256 * b[2]

\* dynamic_bitset::resize: keep the first n bits, pad with zero bits.
resize(key, n) == [i \in 1..n |-> IF i <= Len(key) THEN key[i] ELSE 0]

RECURSIVE to_ulong_reverse_from(_, _)
to_ulong_reverse_from(key, i) ==
    IF i >= Len(key) THEN 0
    ELSE key[Len(key) - i] * (2 ^ i) + to_ulong_reverse_from(key, i + 1)

\* Bit 0 of the key becomes the most significant bit of the result.
to_ulong_reverse(key) == to_ulong_reverse_from(key, 0)

which_bucket(key, bucket_bitsize) ==
    to_ulong_reverse(resize(key, bucket_bitsize))

\* boost::to_block_range: bit 8k+j of the bitset is bit j of byte k.
RECURSIVE block_of(_, _, _)
block_of(key, k, j) ==
    IF j >= 8 \/ 8 * k + j >= Len(key) THEN 0
    ELSE key[8 * k + j + 1] * (2 ^ j) + block_of(key, k, j + 1)

to_block_range(key) == [k \in 1..scan_size |-> block_of(key, k - 1, 0)]

\* Bit i of raw bytes, in the order of to_block_range.
raw_bit(raw, i) == (raw[i \div 8 + 1] \div (2 ^ (i % 8))) % 2

\* stealth_match: the row's key bytes carry the whole prefix.
stealth_match(prefix, raw) ==
    \A i \in 0..(Len(prefix) - 1) : raw_bit(raw, i) = prefix[i + 1]

\* The comparison lambda of sort_rows: the first differing bit decides,
\* equal keys compare true.
RECURSIVE reverse_less_than_from(_, _, _)
reverse_less_than_from(bits_a, bits_b, i) ==
    IF i > Len(bits_a) THEN TRUE
    ELSE IF bits_a[i] # bits_b[i] THEN bits_a[i] < bits_b[i]
    ELSE reverse_less_than_from(bits_a, bits_b, i + 1)

reverse_less_than(bits_a, bits_b) == reverse_less_than_from(bits_a, bits_b, 1)

Orders(n) == {f \in [1..n -> 1..n] : \A i, j \in 1..n : f[i] = f[j] => i = j}

\* Mutant of sort_rows: the rows stay in the order of the add() calls.
sort_rows_none(rs) == {rs}

\* sort_rows: std::sort with reverse_less_than.  The order in which it
\* leaves rows of equal keys depends on the library, so every arrangement
\* of the rows in which no row is followed by one of a smaller key is a
\* result.
sort_rows(rs) ==
    { [i \in 1..Len(rs) |-> rs[f[i]]] : f \in
        { g \in Orders(Len(rs)) :
            \A i, j \in 1..Len(rs) :
                i < j => reverse_less_than(rs[g[i]].scan_key, rs[g[j]].scan_key) } }

\* Mutant of reserve: the file gets what is required and no more.
reserve_exactly(file, end, space_needed) ==
    IF end + space_needed <= Len(file) THEN file
    ELSE file \o Zeros(end + space_needed - Len(file))

\* hdb_shard::reserve: grow the file to 3/2 of what is required.
reserve(file, end, space_needed) ==
    LET required_size == end + space_needed IN
    IF required_size <= Len(file) THEN file
    ELSE file \o Zeros((required_size * 3) \div 2 - Len(file))

\* write_2_bytes(serial, value, begin, end): the value, end - begin times.
write_2_bytes(value, begin, end) ==
    IF end > begin
    THEN [i \in 1..(2 * (end - begin)) |-> to_little_endian_2(value)[2 - (i % 2)]]
    ELSE <<>>

\* write_buckets: for every bucket, the index of the first row that
\* belongs to it or to a later bucket.
RECURSIVE write_buckets_from(_, _, _)
write_buckets_from(rs, i, begin_bucket) ==
    IF i >= Len(rs)
    THEN write_2_bytes(Len(rs), begin_bucket, number_buckets)
    ELSE LET end_bucket ==
                 which_bucket(rs[i + 1].scan_key, settings.bucket_bitsize) + 1
         IN write_2_bytes(i, begin_bucket, end_bucket)
              \o write_buckets_from(rs, i + 1, end_bucket)

\* Mutant of write_buckets: every bucket gets the index 0.
write_buckets_zero(rs) == write_2_bytes(0, 0, number_buckets)

write_buckets(rs) == write_buckets_from(rs, 0, 0)

\* The two BITCOIN_ASSERTs of write_buckets: the buckets of the rows do
\* not decrease, and the last row leaves a bucket to fill.
RECURSIVE write_buckets_asserts_from(_, _, _)
write_buckets_asserts_from(rs, i, begin_bucket) ==
    IF i >= Len(rs) THEN begin_bucket < number_buckets
    ELSE LET end_bucket ==
                 which_bucket(rs[i + 1].scan_key, settings.bucket_bitsize) + 1
         IN /\ begin_bucket <= end_bucket
            /\ write_buckets_asserts_from(rs, i + 1, end_bucket)

write_buckets_asserts(rs) == write_buckets_asserts_from(rs, 0, 0)

RECURSIVE write_rows_from(_, _)
write_rows_from(rs, i) ==
    IF i > Len(rs) THEN <<>>
    ELSE to_block_range(rs[i].scan_key) \o rs[i].value
           \o write_rows_from(rs, i + 1)

write_rows(rs) == write_rows_from(rs, 1)

\* entry_size as sync() computes it.
sync_entry_size(rs) == entry_header_size + row_size * Len(rs)

\* The bytes sync() writes at entries_end_, in the order it writes them.
entry_bytes(rs) ==
    to_little_endian_2(Len(rs)) \o write_buckets(rs) \o write_rows(rs)

\* A run of bytes as single writes <<offset, byte>>, lowest offset first.
WritesAt(off, bytes) == [i \in 1..Len(bytes) |-> <<off + i - 1, bytes[i]>>]

RECURSIVE ApplyWrites(_, _)
ApplyWrites(file, ws) ==
    IF ws = <<>> THEN file
    ELSE ApplyWrites(WriteAt(file, Head(ws)[1], <<Head(ws)[2]>>), Tail(ws))

\* Mutant of link: entries_end is written before the height's position.
shard_link_end_first(height, entry, end) ==
    WritesAt(0, to_little_endian(end))
      \o WritesAt(8 + 8 * height, to_little_endian(entry))

\* hdb_shard::link: the position of the entry into heights[height], then
\* entries_end_ into the first 8 bytes.
shard_link(height, entry, end) ==
    WritesAt(8 + 8 * height, to_little_endian(entry))
      \o WritesAt(0, to_little_endian(end))

\* hdb_shard::start
start(file) == from_little_endian(ReadAt(file, 0, 8))

entry_position(file, height) ==
    from_little_endian(ReadAt(file, 8 + 8 * height, 8))

calc_entry_size(file, entry) ==
    entry_header_size + row_size * from_little_endian_2(ReadAt(file, entry, 2))

read_row_index(file, bucket, entry_begin) ==
    from_little_endian_2(ReadAt(file, entry_begin + 2 + 2 * bucket, 2))

\* The inner loop of scan: the values read from current_row on.  A row
\* outside the file is a read of memory that is not the file's: WildPos.
RECURSIVE scan_rows(_, _, _, _)
scan_rows(file, key, current_row, entry_end) ==
    IF current_row = entry_end THEN <<>>
    ELSE IF current_row + row_size > Len(file) THEN <<WildPos>>
    ELSE IF ~stealth_match(key, ReadAt(file, current_row, scan_size)) THEN <<>>
    ELSE <<ReadAt(file, current_row + scan_size, settings.row_value_size)>>
           \o scan_rows(file, key, current_row + row_size, entry_end)

\* The body of the outer loop of scan for one entry.
scan_entry(file, key, entry) ==
    LET entry_size == calc_entry_size(file, entry)
        bucket == which_bucket(key, settings.bucket_bitsize)
        row_index == read_row_index(file, bucket, entry)
        rows_sector == entry + entry_header_size
    IN scan_rows(file, key, rows_sector + row_size * row_index,
                 entry + entry_size)

\* Mutant of the outer loop of scan: it ends after one entry.
scan_entries_first(file, end, key, entry) ==
    IF entry = end THEN <<>>
    ELSE IF entry + entry_header_size > Len(file) THEN <<WildPos>>
    ELSE scan_entry(file, key, entry)

\* The outer loop of scan: entry after entry until entries_end_.  An
\* entry header outside the file is such a read as well.
RECURSIVE scan_entries(_, _, _, _)
scan_entries(file, end, key, entry) ==
    IF entry = end THEN <<>>
    ELSE IF entry + entry_header_size > Len(file) THEN <<WildPos>>
    ELSE scan_entry(file, key, entry)
           \o scan_entries(file, end, key,
                  entry + calc_entry_size(file, entry))

\* hdb_shard::scan: the values handed to read(), in order.
scan(file, end, key, from_height) ==
    scan_entries(file, end, key, entry_position(file, from_height))

\* What scan hands to read() for every height and prefix.
AllScans(file, end) ==
    [h \in Heights |-> [p \in Prefixes |-> scan(file, end, p, h)]]

NoPreSync == [end |-> 0, rows |-> <<>>, scans |-> <<>>]

NoOp == [op |-> "none", height |-> 0]

\* hdb_shard::add
ShardAdd(scan_key, bound) ==
    /\ ~sh_crashed
    /\ sy_pc = "idle"
    /\ adds < bound
    /\ rows' = Append(rows, [scan_key |-> scan_key, value |-> RowValue(adds + 1)])
    /\ adds' = adds + 1
    /\ last_op' = [op |-> "add", height |-> 0]
    /\ UNCHANGED <<shard_file, entries_end, sy_pc, sy_height, sy_writes, syncs, unlinks,
                   sh_crashed, assert_failed, live, in_order, pre_sync>>
    /\ UNCHANGED not_shard_vars

\* The history after sync(height) has linked the entry at position entry:
\* the rows it holds and what scan reads from it for every prefix.
Synced(file, height, entry, added) ==
    [height |-> height, rows |-> added, entry |-> entry,
     out |-> [p \in Prefixes |-> scan_entry(file, p, entry)]]

\* hdb_shard::sync as one step.
ShardSync(height) ==
    /\ ~sh_crashed
    /\ sy_pc = "idle"
    /\ syncs < MaxSyncs
    /\ \E sorted \in sort_rows(rows) :
        LET entry_size == sync_entry_size(sorted)
            entry == entries_end
            end == entries_end + entry_size
        IN /\ shard_file' =
                  ApplyWrites(reserve(shard_file, entries_end, entry_size),
                      WritesAt(entry, entry_bytes(sorted))
                        \o shard_link(height, entry, end))
           /\ entries_end' = end
           /\ assert_failed' = (assert_failed \/ ~write_buckets_asserts(sorted))
           /\ live' = Append(live, Synced(shard_file', height, entry, rows))
    /\ rows' = <<>>
    /\ syncs' = syncs + 1
    /\ in_order' = (in_order /\ height = Len(live))
    /\ last_op' = [op |-> "sync", height |-> height]
    /\ UNCHANGED <<sy_pc, sy_height, sy_writes, adds, unlinks, sh_crashed,
                   pre_sync>>
    /\ UNCHANGED not_shard_vars

\* hdb_shard::sync, first part: sort_rows, reserve, and the writes of the
\* entry lined up.
SyncBegin(height) ==
    /\ ~sh_crashed
    /\ sy_pc = "idle"
    /\ syncs < MaxCutSyncs
    /\ \E sorted \in sort_rows(rows) :
        /\ rows' = sorted
        /\ shard_file' = reserve(shard_file, entries_end, sync_entry_size(sorted))
        /\ sy_writes' = WritesAt(entries_end, entry_bytes(sorted))
        /\ assert_failed' = (assert_failed \/ ~write_buckets_asserts(sorted))
    /\ sy_height' = height
    /\ sy_pc' = "entry"
    /\ syncs' = syncs + 1
    /\ pre_sync' = [end |-> entries_end, rows |-> rows,
                    scans |-> AllScans(shard_file, entries_end)]
    /\ last_op' = [op |-> "sync", height |-> height]
    /\ UNCHANGED <<entries_end, adds, unlinks, sh_crashed, live, in_order>>
    /\ UNCHANGED not_shard_vars

\* hdb_shard::sync and link, one byte written.  The last byte ends sync.
SyncWriteByte ==
    /\ ~sh_crashed
    /\ sy_pc \in {"entry", "link"}
    /\ sy_writes # <<>>
    /\ shard_file' = ApplyWrites(shard_file, <<Head(sy_writes)>>)
    /\ sy_writes' = Tail(sy_writes)
    /\ IF sy_pc = "link" /\ Tail(sy_writes) = <<>>
       THEN /\ sy_pc' = "idle"
            /\ sy_height' = 0
            /\ live' = Append(live, Synced(shard_file', sy_height,
                                  pre_sync.end, pre_sync.rows))
            /\ in_order' = (in_order /\ sy_height = Len(live))
            /\ pre_sync' = NoPreSync
       ELSE UNCHANGED <<sy_pc, sy_height, live, in_order, pre_sync>>
    /\ UNCHANGED <<entries_end, rows, adds, syncs, unlinks, sh_crashed,
                   assert_failed, last_op>>
    /\ UNCHANGED not_shard_vars

\* hdb_shard::sync, after write_rows: rows_.clear(), entries_end_ moves
\* past the entry, and the writes of link are lined up.
SyncRelocate ==
    /\ ~sh_crashed
    /\ sy_pc = "entry"
    /\ sy_writes = <<>>
    /\ rows' = <<>>
    /\ entries_end' = entries_end + sync_entry_size(rows)
    /\ sy_writes' = shard_link(sy_height, entries_end,
                        entries_end + sync_entry_size(rows))
    /\ sy_pc' = "link"
    /\ UNCHANGED <<shard_file, sy_height, adds, syncs, unlinks, sh_crashed,
                   assert_failed, live, in_order, last_op, pre_sync>>
    /\ UNCHANGED not_shard_vars

\* Mutant of unlink_end: the entry of height itself is taken as the last.
unlink_end_at_height(file, height) ==
    entry_position(file, height)
      + calc_entry_size(file, entry_position(file, height))

\* hdb_shard::unlink: the new entries_end_ is the end of the entry that
\* heights[height - 1] points to.
unlink_end(file, height) ==
    entry_position(file, height - 1)
      + calc_entry_size(file, entry_position(file, height - 1))

\* hdb_shard::unlink, for a height its assertion admits.
ShardUnlink(height, bound) ==
    /\ ~sh_crashed
    /\ sy_pc = "idle"
    /\ height > 0
    /\ unlinks < bound
    /\ unlinks' = unlinks + 1
    /\ entries_end' = unlink_end(shard_file, height)
    /\ shard_file' = WriteAt(shard_file, 0,
                        to_little_endian(unlink_end(shard_file, height)))
    /\ live' = SelectSeq(live, LAMBDA e : e.height < height)
    /\ in_order' = (in_order /\ height <= Len(live))
    /\ last_op' = [op |-> "unlink", height |-> height]
    /\ UNCHANGED <<rows, sy_pc, sy_height, sy_writes, adds, syncs, sh_crashed,
                   assert_failed, pre_sync>>
    /\ UNCHANGED not_shard_vars

\* What unlink(0) computes for entries_end_ when its assertion is compiled
\* out.  height - 1 wraps to the largest size_t, written 0 - 1 here:
\* 8 + 8 * entry_bucket wraps to 0, so entry_position reads the first 8
\* bytes of the file, entries_end itself, as the position of the previous
\* entry.  calc_entry_size then reads a row count there, after the last
\* entry: what the file holds at that place, and anything (here no row or
\* one) when the place is beyond the end of the mapping.
unlink_zero_ends(file) ==
    LET prev_entry == entry_position(file, 0 - 1) IN
    IF prev_entry + 2 <= Len(file)
    THEN {unlink_end(file, 0)}
    ELSE {prev_entry + entry_header_size + row_size * number_rows :
             number_rows \in 0..1}

\* hdb_shard::unlink(0) in a build without assertions.
ShardUnlinkZero ==
    /\ ~sh_crashed
    /\ sy_pc = "idle"
    /\ unlinks < MaxUnlinks
    /\ unlinks' = unlinks + 1
    /\ \E end \in unlink_zero_ends(shard_file) :
         /\ entries_end' = end
         /\ shard_file' = WriteAt(shard_file, 0, to_little_endian(end))
    /\ in_order' = FALSE
    /\ last_op' = [op |-> "unlink", height |-> 0]
    /\ UNCHANGED <<rows, sy_pc, sy_height, sy_writes, adds, syncs, sh_crashed,
                   assert_failed, live, pre_sync>>
    /\ UNCHANGED not_shard_vars

\* The process is cut at any point and started again: the file keeps the
\* bytes written so far, start() reads entries_end_ from it, the rows
\* buffered in memory are gone, and nothing is written afterwards.  sy_pc
\* keeps the place at which a sync was cut.
ShardCrash ==
    /\ ~sh_crashed
    /\ sh_crashed' = TRUE
    /\ entries_end' = start(shard_file)
    /\ rows' = <<>>
    /\ UNCHANGED <<shard_file, sy_pc, sy_height, sy_writes, adds, syncs, unlinks,
                   assert_failed, live, in_order, last_op, pre_sync>>
    /\ UNCHANGED not_shard_vars

\* hdb_shard::initialize_new followed by start.
InitShard ==
    /\ shard_file = to_little_endian(initial_entries_end)
                      \o Zeros(8 * settings.shard_max_entries)
    /\ entries_end = initial_entries_end
    /\ rows = <<>>
    /\ sy_pc = "idle"
    /\ sy_height = 0
    /\ sy_writes = <<>>
    /\ adds = 0
    /\ syncs = 0
    /\ unlinks = 0
    /\ sh_crashed = FALSE
    /\ assert_failed = FALSE
    /\ live = <<>>
    /\ in_order = TRUE
    /\ last_op = NoOp
    /\ pre_sync = NoPreSync

\* One user of the shard: any sequence of add, sync and unlink.
NextShard ==
    \/ \E scan_key \in ScanKeys : ShardAdd(scan_key, MaxAdds)
    \/ \E height \in Heights : ShardSync(height)
    \/ \E height \in Heights : ShardUnlink(height, MaxUnlinks)

\* The same with sync() taken write by write and a cut possible anywhere.
NextShardCut ==
    \/ \E scan_key \in ScanKeys : ShardAdd(scan_key, MaxCutAdds)
    \/ \E height \in Heights : SyncBegin(height)
    \/ SyncWriteByte
    \/ SyncRelocate
    \/ \E height \in Heights : ShardUnlink(height, MaxCutUnlinks)
    \/ ShardCrash

(***************************************************************************)
(* Properties of hdb_shard                                                 *)
(***************************************************************************)

\* The key starts with the bits of the prefix.
IsPrefixOf(p, key) == \A i \in 1..Len(p) : key[i] = p[i]

\* The values of the rows whose key starts with the prefix.
Matching(rs, p) ==
    {rs[i].value : i \in {j \in 1..Len(rs) : IsPrefixOf(p, rs[j].scan_key)}}

\* The sequence holds every element of the set once and nothing else.
ExactlyOnce(got, expected) ==
    /\ Len(got) = Cardinality(expected)
    /\ {got[i] : i \in 1..Len(got)} = expected

\* C2 (as stated): right after add(k_1, v_1) .. add(k_n, v_n) and sync(h),
\* scan(p, f, h) hands to f exactly the values whose key starts with p,
\* once each, whatever the length of p.
C2_ScanVisitsExactlyMatches ==
    (last_op.op = "sync" /\ sy_pc = "idle" /\ ~sh_crashed) =>
        \A p \in Prefixes :
            ExactlyOnce(scan(shard_file, entries_end, p, last_op.height),
                        Matching(live[Len(live)].rows, p))

\* What scan read from the live entries when each was synced.
RECURSIVE LiveOut(_, _)
LiveOut(es, p) ==
    IF es = <<>> THEN <<>> ELSE Head(es).out[p] \o LiveOut(Tail(es), p)

ScanIsLiveOut ==
    \A p \in Prefixes : scan(shard_file, entries_end, p, 0) = LiveOut(live, p)

LiveHeights == {live[i].height : i \in 1..Len(live)}

\* During a sync no byte of the header's entries_end has been written.
HeaderUntouched ==
    \/ sy_pc = "entry"
    \/ /\ sy_pc = "link"
       /\ Cardinality({i \in 1..Len(sy_writes) : sy_writes[i][1] < 8}) = 8

\* After a cut and restart, entries_end and the scans from the given
\* heights are those from before the sync began.
SyncDiscarded(heights) ==
    /\ entries_end = pre_sync.end
    /\ \A h \in heights : \A p \in Prefixes :
         scan(shard_file, entries_end, p, h) = pre_sync.scans[h][p]

\* Once a byte of entries_end is written, nothing but entries_end is
\* left to write.
HeaderWriteIsLast ==
    [][(sy_writes # <<>> /\ sy_writes' = Tail(sy_writes)
          /\ Head(sy_writes)[1] < 8)
        => \A i \in 1..Len(sy_writes') : sy_writes'[i][1] < 8]_vars

\* C8 (as stated): the write of entries_end is the last write of sync, and
\* after a cut before it and a restart, entries_end and the scans from
\* every height that has a live entry are those from before the sync.
\* The calls before the sync were in order, so that those scans read
\* entries only.
C8_Original_CutSyncDiscarded ==
    (sh_crashed /\ HeaderUntouched /\ in_order) => SyncDiscarded(LiveHeights)

\* C8 (amended): the same for the scans from every height that has a live
\* entry other than the height being synced.
C8_CutSyncDiscardedButSlot ==
    /\ []((sh_crashed /\ HeaderUntouched /\ in_order)
            => SyncDiscarded(LiveHeights \ {sy_height}))
    /\ HeaderWriteIsLast

\* C8 witness: a second sync, of an entry with a row, was cut after it
\* wrote heights[height] and before it wrote entries_end; a live entry of
\* another height holds a row.
C8_Witness ==
    /\ sh_crashed
    /\ in_order
    /\ sy_pc = "link"
    /\ Len(sy_writes) = 8
    /\ pre_sync.rows # <<>>
    /\ \E i \in 1..Len(live) :
         /\ live[i].height # sy_height
         /\ live[i].rows # <<>>


(***************************************************************************)
(* The sequence lock of blockchain_impl                                    *)
(*   src/include/bitcoin/blockchain/blockchain_impl.hpp                    *)
(*                                                                         *)
(* One write strand and one reader thread over a table of NCells cells.    *)
(* A write sets every cell to the number of the write, cell by cell, and   *)
(* may grow the file, which moves the mapping; a read copies the cells     *)
(* one by one through the pointer it took when it began.                   *)
(***************************************************************************)
NCells == 2

MaxWrites == 2

MaxFetches == 2

Cells == 1..NCells

\* begin_write: the counter becomes odd.
begin_write(seq) == seq + 1

\* Mutant of finish_write: the counter is left as it is.
finish_write_none(seq) == seq

\* finish_write: ++seqlock_
finish_write(seq) == seq + 1

\* Mutant of finish_fetch: the handler is called whatever the counter is.
finish_fetch_always(slock, seq) == TRUE

\* Mutant of finish_fetch: no snapshot is ever accepted.
finish_fetch_never(slock, seq) == FALSE

\* finish_fetch: the handler is called when slock = seqlock_.
finish_fetch(slock, seq) == ~(slock # seq)

NoResult == [delivered |-> FALSE, buf |-> <<>>, slock |-> 0, seq |-> 0,
             overlapped |-> FALSE, retried |-> FALSE, table |-> <<>>]

\* do_store and its like, first part: begin_write().
BeginWrite ==
    /\ w_pc = "idle"
    /\ writes < MaxWrites
    /\ seqlock_' = begin_write(seqlock_)
    /\ w_pc' = "writing"
    /\ w_i' = 0
    /\ writes' = writes + 1
    /\ r_overlap' = (r_overlap \/ r_pc = "reading")
    /\ UNCHANGED <<table, map_gen, r_pc, r_slock, r_map, r_buf, r_retried, fetches,
                   result, fw_assert_failed>>
    /\ UNCHANGED not_seqlock_vars

\* The write grows the file: the mapping moves.
WriteGrow ==
    /\ w_pc = "writing"
    /\ map_gen = writes - 1
    /\ map_gen' = writes
    /\ r_overlap' = (r_overlap \/ r_pc = "reading")
    /\ UNCHANGED <<seqlock_, w_pc, w_i, writes, table, r_pc, r_slock, r_map,
                   r_buf, r_retried, fetches, result, fw_assert_failed>>
    /\ UNCHANGED not_seqlock_vars

\* The write sets its next cell.
WriteCell ==
    /\ w_pc = "writing"
    /\ w_i < NCells
    /\ table' = [table EXCEPT ![w_i + 1] = writes]
    /\ w_i' = w_i + 1
    /\ r_overlap' = (r_overlap \/ r_pc = "reading")
    /\ UNCHANGED <<seqlock_, w_pc, writes, map_gen, r_pc, r_slock, r_map,
                   r_buf, r_retried, fetches, result, fw_assert_failed>>
    /\ UNCHANGED not_seqlock_vars

\* finish_write: the counter is incremented and asserted to be even.
FinishWrite ==
    /\ w_pc = "writing"
    /\ w_i = NCells
    /\ seqlock_' = finish_write(seqlock_)
    /\ fw_assert_failed' = (fw_assert_failed \/ ~(seqlock_' % 2 = 0))
    /\ w_pc' = "idle"
    /\ w_i' = 0
    /\ r_overlap' = (r_overlap \/ r_pc = "reading")
    /\ UNCHANGED <<writes, table, map_gen, r_pc, r_slock, r_map, r_buf,
                   r_retried, fetches, result>>
    /\ UNCHANGED not_seqlock_vars

\* fetch: the counter is read; an odd value means a write is under way and
\* the read is put off, an even one starts the read.
FetchBegin ==
    /\ r_pc = "idle"
    /\ fetches < MaxFetches
    /\ r_slock' = seqlock_
    /\ r_pc' = IF seqlock_ % 2 = 1 THEN "backoff" ELSE "reading"
    /\ r_map' = map_gen
    /\ r_buf' = <<>>
    /\ r_overlap' = FALSE
    /\ UNCHANGED <<seqlock_, w_pc, w_i, writes, table, map_gen, r_retried, fetches,
                   result, fw_assert_failed>>
    /\ UNCHANGED not_seqlock_vars

\* fetch: after the pause the read is tried again.
FetchRetry ==
    /\ r_pc = "backoff"
    /\ r_pc' = "idle"
    /\ r_slock' = 0
    /\ r_retried' = TRUE
    /\ UNCHANGED <<seqlock_, w_pc, w_i, writes, table, map_gen, r_map, r_buf,
                   r_overlap, fetches, result, fw_assert_failed>>
    /\ UNCHANGED not_seqlock_vars

\* The read copies its next cell.  Through a pointer into a mapping that
\* has moved, and while a write is under way (the cells are not atomic
\* and the two threads race), it reads the cell or anything else.
FetchRead ==
    /\ r_pc = "reading"
    /\ Len(r_buf) < NCells
    /\ \E v \in {table[Len(r_buf) + 1]}
                  \cup (IF r_map = map_gen /\ w_pc = "idle"
                        THEN {} ELSE {Wild}) :
         r_buf' = Append(r_buf, v)
    /\ UNCHANGED <<seqlock_, w_pc, w_i, writes, table, map_gen, r_pc, r_slock,
                   r_map, r_overlap, r_retried, fetches, result, fw_assert_failed>>
    /\ UNCHANGED not_seqlock_vars

\* finish_fetch: the handler gets the result when the counter is what it
\* was; otherwise fetch tries again.
FetchFinish ==
    /\ r_pc = "reading"
    /\ Len(r_buf) = NCells
    /\ IF finish_fetch(r_slock, seqlock_)
       THEN /\ result' = [delivered |-> TRUE, buf |-> r_buf, slock |-> r_slock,
                          seq |-> seqlock_, overlapped |-> r_overlap,
                          retried |-> r_retried, table |-> table]
            /\ fetches' = fetches + 1
            /\ r_retried' = FALSE
       ELSE /\ r_retried' = TRUE
            /\ UNCHANGED <<result, fetches>>
    /\ r_pc' = "idle"
    /\ r_slock' = 0
    /\ r_buf' = <<>>
    /\ r_map' = 0
    /\ r_overlap' = FALSE
    /\ UNCHANGED <<seqlock_, w_pc, w_i, writes, table, map_gen,
                   fw_assert_failed>>
    /\ UNCHANGED not_seqlock_vars

InitSeqlock ==
    /\ seqlock_ = 0
    /\ w_pc = "idle"
    /\ w_i = 0
    /\ writes = 0
    /\ table = [c \in Cells |-> 0]
    /\ map_gen = 0
    /\ r_pc = "idle"
    /\ r_slock = 0
    /\ r_map = 0
    /\ r_buf = <<>>
    /\ r_overlap = FALSE
    /\ r_retried = FALSE
    /\ fetches = 0
    /\ result = NoResult
    /\ fw_assert_failed = FALSE

\* The write strand and a reader thread, interleaved in any way.
NextSeqlock ==
    \/ BeginWrite
    \/ WriteGrow
    \/ WriteCell
    \/ FinishWrite
    \/ FetchBegin
    \/ FetchRetry
    \/ FetchRead
    \/ FetchFinish

(***************************************************************************)
(* Properties of the sequence lock                                         *)
(***************************************************************************)

\* C9: the handler of a fetch gets a result only if the counter at the end
\* of the read is the even value read at its start; no step of a write,
\* growth of the file included, fell into such a read, and the result is
\* the table as it stands, which no write is changing.
C9_DeliveredIsConsistent ==
    result.delivered =>
        /\ result.slock = result.seq
        /\ result.slock % 2 = 0
        /\ ~result.overlapped
        /\ result.buf = result.table
        /\ \A c \in Cells : result.buf[c] = result.slock \div 2

\* C9 witness: the first result delivered is that of a read begun after
\* a write that grew the file, and the next write is under way.
C9_Witness ==
    /\ result.delivered
    /\ result.slock = 2
    /\ map_gen = 1
    /\ fetches = 1
    /\ w_pc = "writing"

\* C10: the counter is odd exactly while a write is in progress, and the
\* assertion of finish_write has never failed.
C10_OddExactlyWhileWriting ==
    /\ (seqlock_ % 2 = 1) <=> (w_pc = "writing")
    /\ ~fw_assert_failed

\* C10 witness: a second write is under way, the counter is 3.
C10_Witness ==
    /\ w_pc = "writing"
    /\ seqlock_ = 3
    /\ w_i = 1

(***************************************************************************)
(* mmfile: the mapped file and its resize                                  *)
(*   src/unnamed/part_006, and the write path of hdb_shard over it         *)
(***************************************************************************)

\* Bounds on the runs explored: the lengths a file is resized to, and the
\* number of resize() and write calls.
MaxSize == 4

MaxResizes == 3

MaxMmWrites == 2

\* The length of the file mmfile's constructor finds: touch_file has
\* written one byte.
touched_size == 1

\* What mmap and mremap return when they fail, (void*) -1.
MAP_FAILED == 0 - 1

\* The ways a call of resize can go: every system call succeeds, ftruncate
\* fails, munmap fails, or the mapping (mmap or mremap) fails.
Failures == {"none", "ftruncate", "munmap", "map"}

\* mmfile::resize on the state st of the object and its file; base is the
\* address the kernel maps at when the call gets there.  ret is what the
\* call returns.
mmfile_resize(st, new_size, fail, base) ==
    IF fail = "ftruncate" THEN [st EXCEPT !.ret = FALSE]
    ELSE LET truncated == [st EXCEPT !.length = new_size] IN
         IF ~st.mremap
         THEN \* munmap, then mmap; munmap of MAP_FAILED fails
              IF fail = "munmap" \/ st.data = MAP_FAILED
              THEN [truncated EXCEPT !.ret = FALSE]
              ELSE IF fail = "map" \/ new_size = 0
              THEN [truncated EXCEPT !.mapped = @ \ {st.data},
                                     !.data = MAP_FAILED, !.ret = FALSE]
              ELSE [truncated EXCEPT !.mapped = (@ \ {st.data}) \cup {base},
                                     !.data = base, !.size = new_size,
                                     !.ret = TRUE]
         ELSE \* mremap; of MAP_FAILED, or to no length, it fails
              IF fail = "map" \/ new_size = 0 \/ st.data = MAP_FAILED
              THEN [truncated EXCEPT !.data = MAP_FAILED, !.ret = FALSE]
              ELSE [truncated EXCEPT !.mapped = (@ \ {st.data}) \cup {base},
                                     !.data = base, !.size = new_size,
                                     !.ret = TRUE]

\* The object and its file as one record, and back.
MmState ==
    [ mremap |-> mm_mremap, length |-> mm_length, data |-> data_,
      size |-> size_, mapped |-> mm_mapped, ret |-> TRUE ]

\* The addresses a new mapping can get: where the old one was, or a place
\* no mapping had yet.
Bases == {data_, mm_bases + 1} \ {MAP_FAILED}

NoCall == [op |-> "none", ret |-> TRUE, wild |-> FALSE, size_before |-> 0]

\* mmfile::resize, called with any size.
MmResize(new_size, fail, base) ==
    /\ resizes < MaxResizes
    /\ mm_mremap => fail # "munmap"
    /\ LET st == mmfile_resize(MmState, new_size, fail, base) IN
        /\ mm_length' = st.length
        /\ data_' = st.data
        /\ size_' = st.size
        /\ mm_mapped' = st.mapped
        /\ mm_last' = [op |-> "resize", ret |-> st.ret, wild |-> FALSE,
                       size_before |-> size_]
        /\ mm_failed' = (mm_failed \/ ~st.ret)
    /\ mm_bases' = IF base > mm_bases THEN base ELSE mm_bases
    /\ resizes' = resizes + 1
    /\ UNCHANGED <<mm_mremap, mm_end, mm_writes>>
    /\ UNCHANGED not_mm_vars

\* The write path of hdb_shard::sync over the file: reserve(space_needed),
\* whose assertion on the result of resize is compiled out, then
\* space_needed bytes written at data() + entries_end_.  The write is wild
\* when data() is no mapping or the bytes lie beyond size().
MmWrite(space_needed, fail, base) ==
    /\ mm_writes < MaxMmWrites
    /\ mm_end + space_needed <= MaxSize
    /\ mm_mremap => fail # "munmap"
    /\ LET required_size == mm_end + space_needed
           st == IF required_size <= size_ THEN MmState
                 ELSE mmfile_resize(MmState, (required_size * 3) \div 2,
                                    fail, base)
       IN /\ mm_length' = st.length
          /\ data_' = st.data
          /\ size_' = st.size
          /\ mm_mapped' = st.mapped
          /\ mm_last' = [op |-> "write", ret |-> st.ret,
                         wild |-> (st.data \notin st.mapped
                                     \/ required_size > st.size),
                         size_before |-> size_]
          /\ mm_failed' = (mm_failed \/ ~st.ret)
          /\ mm_end' = required_size
    /\ mm_bases' = IF base > mm_bases /\ data_' = base THEN base ELSE mm_bases
    /\ mm_writes' = mm_writes + 1
    /\ UNCHANGED <<mm_mremap, resizes>>
    /\ UNCHANGED not_mm_vars

\* mmfile's constructor over a touched file, in a build with mremap or
\* without.
MmOpen(mremap) ==
    /\ mm_mremap = mremap
    /\ mm_length = touched_size
    /\ data_ = 1
    /\ size_ = touched_size
    /\ mm_mapped = {1}
    /\ mm_bases = 1
    /\ mm_end = 0
    /\ resizes = 0
    /\ mm_writes = 0
    /\ mm_failed = FALSE
    /\ mm_last = NoCall

InitMm == \E mremap \in BOOLEAN : MmOpen(mremap)

InitMmLinux == MmOpen(TRUE)

NextMm ==
    \/ \E new_size \in 0..MaxSize, fail \in Failures, base \in Bases :
           MmResize(new_size, fail, base)
    \/ \E space_needed \in 1..MaxSize, fail \in Failures, base \in Bases :
           MmWrite(space_needed, fail, base)

\* C19: no call of resize, whatever its argument, makes size() smaller or
\* the file shorter.
C19_ResizeOnlyGrows ==
    [][resizes' = resizes + 1 =>
          /\ size_' >= size_
          /\ mm_length' >= mm_length]_vars

\* The case of C19's failure: resize has returned true and the file and
\* size() are smaller than the file was made before.
C19_Shrunk ==
    /\ mm_last.op = "resize"
    /\ mm_last.ret
    /\ size_ < mm_last.size_before
    /\ mm_length = size_

\* C20: a resize that returns false leaves data() at the mapping it was
\* at, which still is one, size() as it was and the file as long as
\* size(); and after a resize has failed no write is made.
C20_FailedResizeKeepsState ==
    /\ [][(resizes' = resizes + 1 /\ ~mm_last'.ret) =>
             /\ data_' = data_
             /\ data_' \in mm_mapped'
             /\ size_' = size_
             /\ mm_length' = size_']_vars
    /\ [][(mm_writes' = mm_writes + 1) => mm_last'.ret /\ ~mm_failed]_vars
    /\ [](mm_last.op = "write" => ~mm_last.wild)

\* The case of C20's failure: the file has been made longer, the mapping
\* has failed, data() is MAP_FAILED and size() is what it was.
C20_MapFailed ==
    /\ mm_last.op = "resize"
    /\ ~mm_last.ret
    /\ data_ = MAP_FAILED
    /\ mm_length > size_

\* A fetch is pending from its first snapshot until its handler is called.
FetchPending == r_pc # "idle" \/ r_retried

\* The states of the table between writes: every cell holds the number of
\* writes completed.
Committed == {[c \in Cells |-> k] : k \in 0..MaxWrites}

\* C11: under fair scheduling of the reader and of a write under way, every
\* pending fetch, put off on an odd counter or thrown away on a changed
\* one, is delivered once the writer is quiet; whatever the writer does,
\* a delivered result is the table before or after a write, never a mix.
C11_RetryUntilConsistent ==
    /\ [](result.delivered =>
            /\ result.buf \in Committed
            /\ result.buf = result.table)
    /\ \A n \in 0..(MaxFetches - 1) :
           (FetchPending /\ fetches = n) ~> (fetches = n + 1)

\* C11 witness: a fetch that was retried while a write was made has been
\* delivered, with the table as the write left it.
C11_Witness ==
    /\ result.delivered
    /\ result.retried
    /\ result.slock = 2
    /\ w_pc = "idle"

\* C17: unlink(0) is refused: entries_end_, in memory and in the first 8
\* bytes of the file, the heights and the entries are as they were.
C17_UnlinkZeroRejected ==
    [][(unlinks' = unlinks + 1 /\ last_op' = [op |-> "unlink", height |-> 0])
          => /\ entries_end' = entries_end
             /\ shard_file' = shard_file]_vars

\* The case of C17's failure: unlink(0) has been called on a shard with one
\* synced entry, and entries_end_ is no longer the end of that entry.
C17_UnlinkZeroMoved ==
    /\ last_op = [op |-> "unlink", height |-> 0]
    /\ Len(live) = 1
    /\ entries_end > live[1].entry + calc_entry_size(shard_file, live[1].entry)
    /\ start(shard_file) = entries_end

\* The raw scan keys of the rows of the entry at position entry, as stored.
stored_keys(file, entry) ==
    [k \in 1..from_little_endian_2(ReadAt(file, entry, 2)) |->
        ReadAt(file, entry + entry_header_size + (k - 1) * row_size,
               scan_size)]

\* Sequences of numbers in lexicographic order, the first place first.
LexLessEq(a, b) ==
    \/ a = b
    \/ \E i \in 1..Len(a) :
          /\ \A j \in 1..(i - 1) : a[j] = b[j]
          /\ a[i] < b[i]

\* The scan bits a stored key holds, bit 0 first.
stored_bits(raw) == [i \in 1..scan_bitsize |-> raw_bit(raw, i - 1)]

\* C15 (as stated): the rows of every entry are in the lexicographic order
\* of their stored key bytes, compared as unsigned bytes from the first.
C15_Original_RowsInByteOrder ==
    in_order =>
        \A e \in 1..Len(live) :
            LET keys == stored_keys(shard_file, live[e].entry) IN
            \A k, l \in 1..Len(keys) : k < l => LexLessEq(keys[k], keys[l])

\* C15 (amended): the rows of every entry are in the lexicographic order
\* of the bits of their keys, bit 0 first; bit 8k+j of a key is bit j,
\* counted from the least significant, of stored byte k.
C15_RowsInBitOrder ==
    in_order =>
        \A e \in 1..Len(live) :
            LET keys == stored_keys(shard_file, live[e].entry) IN
            /\ Len(keys) = Len(live[e].rows)
            /\ \A k, l \in 1..Len(keys) :
                   k < l => LexLessEq(stored_bits(keys[k]), stored_bits(keys[l]))

\* C15 witness: an entry of two rows added with the larger key first, whose
\* stored key bytes are 2 and then 1.
C15_Witness ==
    /\ in_order
    /\ Len(live) = 1
    /\ Len(live[1].rows) = 2
    /\ live[1].rows[1].scan_key = <<1, 0>>
    /\ stored_keys(shard_file, live[1].entry) = << <<2>>, <<1>> >>

\* The number the first bucket_bitsize bits of a stored key make, bit 0
\* the most significant.
RECURSIVE leading_bits_from(_, _)
leading_bits_from(raw, i) ==
    IF i >= settings.bucket_bitsize THEN 0
    ELSE raw_bit(raw, i) * (2 ^ (settings.bucket_bitsize - 1 - i))
           + leading_bits_from(raw, i + 1)

leading_bits(raw) == leading_bits_from(raw, 0)

\* The index of the first of the keys whose leading bits are b or more;
\* the number of keys when there is none.
FirstAtLeast(keys, b) ==
    LET at_least == {k \in 1..Len(keys) : leading_bits(keys[k]) >= b} IN
    IF at_least = {} THEN Len(keys)
    ELSE (CHOOSE k \in at_least : \A l \in at_least : k <= l) - 1

\* The bucket array of the entry at position entry.
stored_buckets(file, entry) ==
    [b \in 1..number_buckets |-> read_row_index(file, b - 1, entry)]

\* The rows of an entry, as stored after the bucket array.
stored_rows(file, entry) ==
    [k \in 1..from_little_endian_2(ReadAt(file, entry, 2)) |->
        ReadAt(file, entry + 2 + 2 * number_buckets + (k - 1) * row_size,
               row_size)]

\* number_buckets values lie between row_count and the first row: the
\* rows found after them are the rows that were added.
RowsFollowBuckets(e) ==
    LET stored == stored_rows(shard_file, live[e].entry) IN
    /\ Len(stored) = Len(live[e].rows)
    /\ {stored[k] : k \in 1..Len(stored)}
         = {to_block_range(live[e].rows[k].scan_key) \o live[e].rows[k].value :
               k \in 1..Len(live[e].rows)}

RECURSIVE StoredValuesFrom(_)
StoredValuesFrom(e) ==
    IF e > Len(live) THEN <<>>
    ELSE LET stored == stored_rows(shard_file, live[e].entry) IN
         [k \in 1..Len(stored) |->
             SubSeq(stored[k], scan_size + 1, row_size)]
           \o StoredValuesFrom(e + 1)

\* C18: a scan with the empty prefix from a height that has an entry hands
\* to read every row of that entry and of every later one up to
\* entries_end, once each, entry after entry and the rows of an entry in
\* their stored order.
C18_EmptyPrefixVisitsAll ==
    (in_order /\ sy_pc = "idle") =>
        \A e \in 1..Len(live) :
            /\ RowsFollowBuckets(e)
            /\ scan(shard_file, entries_end, <<>>, live[e].height)
                 = StoredValuesFrom(e)

\* C18 witness: two entries of one row each, the first in the highest
\* bucket; the scan from height 0 has read both rows.
C18_Witness ==
    /\ in_order
    /\ sy_pc = "idle"
    /\ Len(live) = 2
    /\ Len(live[1].rows) = 1
    /\ live[1].rows[1].scan_key[1] = 1
    /\ Len(live[2].rows) = 1
    /\ Len(scan(shard_file, entries_end, <<>>, 0)) = 2

(***************************************************************************)
(* db_interface: push and pop of a block over the five tables              *)
(*   src/src/db_interface.cpp                                              *)
(*                                                                         *)
(* The tables themselves (block_database, spend_database,                  *)
(* transaction_database, history_database, stealth_database) are used      *)
(* through their interfaces: a hash table hands out the entry stored last  *)
(* under a key and removes that one, a history list loses its last row,    *)
(* what a table holds after a restart is what its last sync published.     *)
(***************************************************************************)

\* Bounds on the runs explored.
MaxTxs == 2

MaxPushes == 2

MaxPops == 2

MaxCutPushes == 2

MaxCutTxs == 1

MaxCrashes == 1

\* is_special_duplicate: the two heights of the duplicated coinbases.
special_height_1 == 91842

special_height_2 == 91880

\* The height of the block whose coinbase the block at special_height_1
\* repeats.
earlier_height == 91812

\* block_database::null_height, the largest size_t: no block yet.
null_height == 0 - 1

next_height(current_height) ==
    IF current_height = null_height THEN 0 ELSE current_height + 1

is_special_duplicate(info) ==
    /\ info.height = special_height_1 \/ info.height = special_height_2
    /\ info.index = 0

Addresses == {"a1", "a2"}

\* What payment_address::extract gives for a script without an address.
NoAddress == "none"

null_point == "null"

input_a1 == [previous_output |-> "o1", address |-> "a1"]

input_a2 == [previous_output |-> "o2", address |-> "a2"]

input_bare == [previous_output |-> "o1", address |-> NoAddress]

output_a1 == [address |-> "a1", value |-> 1, ephemeral |-> FALSE]

output_a2 == [address |-> "a2", value |-> 2, ephemeral |-> FALSE]

output_ephemeral == [address |-> NoAddress, value |-> 0, ephemeral |-> TRUE]

\* The transactions of the blocks pushed: a coinbase, a transaction of one
\* input and two outputs, and one of two inputs whose first output carries
\* an ephemeral key for the address of the second.
coinbase_tx ==
    [ inputs |-> <<[previous_output |-> null_point, address |-> NoAddress]>>,
      outputs |-> <<output_a1>> ]

payment_tx ==
    [ inputs |-> <<input_a1>>, outputs |-> <<output_a1, output_a2>> ]

stealth_tx ==
    [ inputs |-> <<input_a2, input_bare>>,
      outputs |-> <<output_ephemeral, output_a1>> ]

Txs == {coinbase_tx, payment_tx, stealth_tx}

Headers == {"h1", "h2"}

RECURSIVE SeqsUpTo(_, _)
SeqsUpTo(S, n) ==
    IF n = 0 THEN {<<>>}
    ELSE SeqsUpTo(S, n - 1)
           \cup {Append(s, x) : s \in {t \in SeqsUpTo(S, n - 1) : Len(t) = n - 1},
                                x \in S}

Blocks == [header : Headers, transactions : SeqsUpTo(Txs, MaxTxs)]

CutBlocks == [header : Headers, transactions : SeqsUpTo(Txs, MaxCutTxs)]

\* transaction::is_coinbase: one input, and it spends the null point.
is_coinbase(tx) ==
    /\ Len(tx.inputs) = 1
    /\ tx.inputs[1].previous_output = null_point

\* transaction::hash: equal for equal transactions, and no two different
\* transactions of Txs collide; a hash is written as the transaction it
\* is the hash of.
tx_hash(tx) == [hash_of |-> tx]

\* What stands for a null result.
NoEntry == [found |-> FALSE]

\* Hash tables (spends, transactions): newest entry first.
RECURSIVE table_get(_, _)
table_get(entries, key) ==
    IF entries = <<>> THEN NoEntry
    ELSE IF Head(entries).key = key THEN Head(entries)
    ELSE table_get(Tail(entries), key)

RECURSIVE table_remove(_, _)
table_remove(entries, key) ==
    IF entries = <<>> THEN <<>>
    ELSE IF Head(entries).key = key THEN Tail(entries)
    ELSE <<Head(entries)>> \o table_remove(Tail(entries), key)

table_store(entries, key, value) ==
    <<[found |-> TRUE, key |-> key, value |-> value]>> \o entries

\* history_database::add_spend and add_output: a row at the end of the
\* list of the address.
add_row(history, address, row) ==
    [history EXCEPT ![address] = Append(@, row)]

\* history_database::delete_last_row: the list of the address loses the
\* row added last; a list without rows stays as it is.
delete_last_row(history, address) ==
    [history EXCEPT ![address] =
        IF @ = <<>> THEN @ ELSE SubSeq(@, 1, Len(@) - 1)]

\* block_database::last_height
last_height(blocks) ==
    IF blocks.first + Len(blocks.recs) = 0 THEN null_height
    ELSE blocks.first + Len(blocks.recs) - 1

\* block_database::unlink: the records from the height on are dropped.
blocks_unlink(blocks, height) ==
    [blocks EXCEPT !.recs =
        IF height < blocks.first THEN <<>>
        ELSE SubSeq(@, 1, height - blocks.first)]

\* stealth_database::unlink: the rows from the height on are dropped.
RECURSIVE stealth_unlink(_, _)
stealth_unlink(rows_, height) ==
    IF rows_ = <<>> THEN <<>>
    ELSE IF Head(rows_).height >= height THEN stealth_unlink(Tail(rows_), height)
    ELSE <<Head(rows_)>> \o stealth_unlink(Tail(rows_), height)

\* push_inputs, from input i on.  t holds the five tables and, as history
\* of the call, the rows added to the history lists, in order.
RECURSIVE push_inputs(_, _, _, _, _, _)
push_inputs(t, history_from, tx, block_height, inputs, i) ==
    IF i >= Len(inputs) THEN t
    ELSE LET input == inputs[i + 1]
             spend == [hash |-> tx, index |-> i]
             stored == [t EXCEPT !.spends =
                           table_store(@, input.previous_output, spend)]
             row == [kind |-> "spend", point |-> spend,
                     height |-> block_height,
                     value |-> input.previous_output]
         IN push_inputs(
                IF block_height < history_from \/ input.address = NoAddress
                THEN stored
                ELSE [stored EXCEPT
                        !.history = add_row(@, input.address, row),
                        !.added = Append(@, <<input.address, row>>)],
                history_from, tx, block_height, inputs, i + 1)

RECURSIVE push_outputs(_, _, _, _, _, _)
push_outputs(t, history_from, tx, block_height, outputs, i) ==
    IF i >= Len(outputs) THEN t
    ELSE LET output == outputs[i + 1]
             outpoint == [hash |-> tx, index |-> i]
             row == [kind |-> "output", point |-> outpoint,
                     height |-> block_height, value |-> output.value]
         IN push_outputs(
                IF block_height < history_from \/ output.address = NoAddress
                THEN t
                ELSE [t EXCEPT
                        !.history = add_row(@, output.address, row),
                        !.added = Append(@, <<output.address, row>>)],
                history_from, tx, block_height, outputs, i + 1)

\* push_stealth_outputs, from output i on: an output with an ephemeral key
\* and a prefix, followed by one with an address.
RECURSIVE push_stealth_outputs(_, _, _, _, _)
push_stealth_outputs(t, tx, block_height, outputs, i) ==
    IF i >= Len(outputs) - 1 THEN t
    ELSE push_stealth_outputs(
            IF ~outputs[i + 1].ephemeral \/ outputs[i + 2].address = NoAddress
            THEN t
            ELSE [t EXCEPT !.stealth = Append(@,
                     [height |-> block_height,
                      address |-> outputs[i + 2].address,
                      tx_hash |-> tx])],
            tx, block_height, outputs, i + 1)

\* The body of the loop of push for transaction i.
push_tx(t, history_from, block, block_height, i) ==
    LET tx == block.transactions[i + 1]
        info == [height |-> block_height, index |-> i]
        hash == tx_hash(tx)
    IN IF is_special_duplicate(info) THEN t
       ELSE LET ins == IF ~is_coinbase(tx)
                       THEN push_inputs(t, history_from, hash, block_height,
                                        tx.inputs, 0)
                       ELSE t
                outs == push_outputs(ins, history_from, hash, block_height,
                                     tx.outputs, 0)
                sts == push_stealth_outputs(outs, hash, block_height,
                                            tx.outputs, 0)
            IN [sts EXCEPT !.transactions =
                   table_store(@, hash, [info |-> info, tx |-> tx])]

RECURSIVE push_txs(_, _, _, _, _)
push_txs(t, history_from, block, block_height, i) ==
    IF i >= Len(block.transactions) THEN t
    ELSE push_txs(push_tx(t, history_from, block, block_height, i),
                  history_from, block, block_height, i + 1)

\* block_database::store: the header and the hashes of the transactions.
blocks_store(blocks, block) ==
    [blocks EXCEPT !.recs = Append(@,
        [header |-> block.header,
         hashes |-> [i \in 1..Len(block.transactions) |->
                        tx_hash(block.transactions[i])]])]

\* push up to the syncs.
push(t, history_from, block) ==
    LET block_height == next_height(last_height(t.blocks))
        stored == push_txs(t, history_from, block, block_height, 0)
    IN [stored EXCEPT !.blocks = blocks_store(@, block)]

\* A history row deleted: the last of the list, or none.
last_row(history, address) ==
    IF history[address] = <<>> THEN NoEntry
    ELSE history[address][Len(history[address])]

\* pop_outputs: from output i down to the first.
RECURSIVE pop_outputs(_, _, _, _, _)
pop_outputs(t, history_from, block_height, outputs, i) ==
    IF i < 0 THEN t
    ELSE LET output == outputs[i + 1] IN
         pop_outputs(
            IF block_height < history_from \/ output.address = NoAddress
            THEN t
            ELSE [t EXCEPT
                    !.deleted = Append(@, <<output.address,
                                            last_row(t.history, output.address)>>),
                    !.history = delete_last_row(@, output.address)],
            history_from, block_height, outputs, i - 1)

\* pop_inputs: from input i down to the first.
RECURSIVE pop_inputs(_, _, _, _, _)
pop_inputs(t, history_from, block_height, inputs, i) ==
    IF i < 0 THEN t
    ELSE LET input == inputs[i + 1]
             removed == [t EXCEPT !.spends =
                            table_remove(@, input.previous_output)]
         IN pop_inputs(
                IF block_height < history_from \/ input.address = NoAddress
                THEN removed
                ELSE [removed EXCEPT
                        !.deleted = Append(@, <<input.address,
                                                last_row(t.history, input.address)>>),
                        !.history = delete_last_row(@, input.address)],
                history_from, block_height, inputs, i - 1)

\* The body of the loop of pop for transaction i.  The three assertions
\* are compiled out of a release build: a null tx_result is read all the
\* same, and what is read through it is any transaction, here garbage.
pop_tx(t, history_from, block_result, block_height, i, garbage) ==
    LET hash == block_result.hashes[i + 1]
        tx_result == table_get(t.transactions, hash)
        tx == IF tx_result.found THEN tx_result.value.tx ELSE garbage
        asserted ==
            /\ tx_result.found
            /\ tx_result.value.info.height = block_height
            /\ tx_result.value.info.index = i
        removed == [t EXCEPT !.transactions = table_remove(@, hash),
                             !.null_read = @ \/ ~tx_result.found,
                             !.assert_failed = @ \/ ~asserted]
        outs == pop_outputs(removed, history_from, block_height, tx.outputs,
                            Len(tx.outputs) - 1)
        ins == IF ~is_coinbase(tx)
               THEN pop_inputs(outs, history_from, block_height, tx.inputs,
                               Len(tx.inputs) - 1)
               ELSE outs
    IN [ins EXCEPT !.txs = Append(@, tx)]

RECURSIVE pop_txs(_, _, _, _, _, _)
pop_txs(t, history_from, block_result, block_height, i, garbage) ==
    IF i < 0 THEN t
    ELSE pop_txs(pop_tx(t, history_from, block_result, block_height, i,
                        garbage),
                 history_from, block_result, block_height, i - 1, garbage)

\* std::reverse
Reverse(s) == [i \in 1..Len(s) |-> s[Len(s) + 1 - i]]

\* pop: the tables after it and, in txs, the transactions of the result.
pop(t, history_from, garbage) ==
    LET block_height == last_height(t.blocks)
        block_result == t.blocks.recs[Len(t.blocks.recs)]
        looped == pop_txs(t, history_from, block_result, block_height,
                          Len(block_result.hashes) - 1, garbage)
    IN [looped EXCEPT !.stealth = stealth_unlink(@, block_height),
                      !.blocks = blocks_unlink(@, block_height),
                      !.txs = Reverse(@)]

\* The five tables of a call and the history of the call.
Work(tables) ==
    [ blocks |-> tables.blocks, spends |-> tables.spends,
      transactions |-> tables.transactions, history |-> tables.history,
      stealth |-> tables.stealth,
      added |-> <<>>, deleted |-> <<>>, txs |-> <<>>,
      null_read |-> FALSE, assert_failed |-> FALSE ]

Tables(t) ==
    [ blocks |-> t.blocks, spends |-> t.spends,
      transactions |-> t.transactions, history |-> t.history,
      stealth |-> t.stealth ]

\* The order of the syncs at the end of push.
sync_order_blocks_first ==
    <<"blocks", "spends", "transactions", "history", "stealth">>

sync_order == <<"spends", "transactions", "history", "stealth", "blocks">>

NoPush == [found |-> FALSE]

\* push(block), whole.
DbPush(block) ==
    /\ push_pc = "idle"
    /\ pushes < MaxPushes
    /\ LET t == push(Work(db), active_heights_.history, block) IN
        /\ db' = Tables(t)
        /\ pushed' = Append(pushed,
               [block |-> block,
                height |-> next_height(last_height(db.blocks)),
                before |-> db, added |-> t.added])
    /\ disk' = db'
    /\ pushes' = pushes + 1
    /\ UNCHANGED <<active_heights_, push_pc, push_i, push_block, push_from,
                   push_added, popped, pops, db_crashes, cut, repeated>>
    /\ UNCHANGED not_db_vars

\* pop(), whole.  Blocks that were on the chain before the run are not
\* popped.
DbPop ==
    /\ push_pc = "idle"
    /\ pops < MaxPops
    /\ db.blocks.recs # <<>>
    /\ \E garbage \in Txs :
        LET t == pop(Work(db), active_heights_.history, garbage) IN
        /\ db' = Tables(t)
        /\ popped' =
               [found |-> TRUE,
                block |-> [header |-> db.blocks.recs[Len(db.blocks.recs)].header,
                           transactions |-> t.txs],
                height |-> last_height(db.blocks),
                deleted |-> t.deleted,
                null_read |-> t.null_read,
                assert_failed |-> t.assert_failed,
                after |-> db',
                of |-> pushed[Len(pushed)]]
    /\ disk' = db'
    /\ pushed' = SubSeq(pushed, 1, Len(pushed) - 1)
    /\ pops' = pops + 1
    /\ UNCHANGED <<active_heights_, push_pc, push_i, push_block, push_from,
                   push_added, pushes, db_crashes, cut, repeated>>
    /\ UNCHANGED not_db_vars

\* push taken step by step.  First the height is read.
PushBegin(block) ==
    /\ push_pc = "idle"
    /\ pushes < MaxCutPushes
    /\ push_pc' = "txs"
    /\ push_i' = 0
    /\ push_block' = block
    /\ push_from' = last_height(db.blocks)
    /\ push_added' = <<>>
    /\ pushes' = pushes + 1
    /\ UNCHANGED <<active_heights_, db, disk, pushed, popped, pops,
                   db_crashes, cut, repeated>>
    /\ UNCHANGED not_db_vars

\* One turn of the loop of push, or after the last the store of the block.
PushTx ==
    /\ push_pc = "txs"
    /\ IF push_i < Len(push_block.transactions)
       THEN LET t == push_tx([Work(db) EXCEPT !.added = push_added],
                             active_heights_.history, push_block,
                             next_height(push_from), push_i) IN
            /\ db' = Tables(t)
            /\ push_added' = t.added
            /\ push_i' = push_i + 1
            /\ UNCHANGED push_pc
       ELSE /\ db' = [db EXCEPT !.blocks = blocks_store(@, push_block)]
            /\ push_pc' = "sync"
            /\ push_i' = 0
            /\ UNCHANGED push_added
    /\ UNCHANGED <<active_heights_, disk, push_block, push_from, pushed,
                   popped, pushes, pops, db_crashes, cut, repeated>>
    /\ UNCHANGED not_db_vars

\* The next sync of push; the last one ends the push.
PushSync ==
    /\ push_pc = "sync"
    /\ disk' = [disk EXCEPT ![sync_order[push_i + 1]] = db[sync_order[push_i + 1]]]
    /\ IF push_i + 1 < Len(sync_order)
       THEN /\ push_i' = push_i + 1
            /\ UNCHANGED <<push_pc, pushed, repeated>>
       ELSE /\ push_pc' = "idle"
            /\ push_i' = 0
            /\ pushed' = Append(pushed,
                   [block |-> push_block, height |-> next_height(push_from),
                    before |-> db, added |-> push_added])
            /\ repeated' =
                   IF cut.found /\ cut.block = push_block
                                /\ cut.from = push_from
                   THEN [found |-> TRUE, block |-> push_block,
                         from |-> push_from,
                         height |-> last_height(disk'.blocks),
                         top |-> disk'.blocks.recs[Len(disk'.blocks.recs)]]
                   ELSE repeated
    /\ UNCHANGED <<active_heights_, db, push_block, push_from, push_added,
                   popped, pushes, pops, db_crashes, cut>>
    /\ UNCHANGED not_db_vars

\* The process ends in the middle of a push and is started again.  The
\* count of blocks is what blocks.sync published last; what was written to
\* the other tables since their last sync is in the mapped files or is
\* not.
DbCrash ==
    LET pushed_recs == [i \in 1..Len(pushed) |->
            [header |-> pushed[i].block.header,
             hashes |-> [j \in 1..Len(pushed[i].block.transactions) |->
                            tx_hash(pushed[i].block.transactions[j])]]] IN
    /\ push_pc # "idle"
    /\ db_crashes < MaxCrashes
    /\ \E kept \in SUBSET {"spends", "transactions", "history", "stealth"} :
         db' = [f \in DOMAIN db |-> IF f \in kept THEN db[f] ELSE disk[f]]
    /\ disk' = db'
    /\ cut' = [found |-> TRUE, block |-> push_block, from |-> push_from,
               at |-> push_pc, synced |-> push_i,
               height |-> last_height(db'.blocks),
               recs |-> db'.blocks.recs,
               recs_before |-> pushed_recs]
    /\ push_pc' = "idle"
    /\ push_i' = 0
    /\ db_crashes' = db_crashes + 1
    /\ UNCHANGED <<active_heights_, push_block, push_from, push_added, pushed,
                   popped, pushes, pops, repeated>>
    /\ UNCHANGED not_db_vars

\* The tables a run starts from: a new chain, or a chain of special_height_1
\* blocks whose tables hold, or do not hold, the coinbase of an earlier
\* block and the history row of its output.
no_rows == [a \in Addresses |-> <<>>]

earlier_row ==
    [ kind |-> "output", point |-> [hash |-> tx_hash(coinbase_tx), index |-> 0],
      height |-> earlier_height, value |-> 1 ]

new_chain ==
    [ blocks |-> [first |-> 0, recs |-> <<>>], spends |-> <<>>,
      transactions |-> <<>>, history |-> no_rows, stealth |-> <<>> ]

InitTables ==
    { new_chain,
      [ blocks |-> [first |-> special_height_1, recs |-> <<>>], spends |-> <<>>,
        transactions |-> <<>>, history |-> no_rows, stealth |-> <<>> ],
      [ blocks |-> [first |-> special_height_1, recs |-> <<>>], spends |-> <<>>,
        transactions |-> table_store(<<>>, tx_hash(coinbase_tx),
            [info |-> [height |-> earlier_height, index |-> 0],
             tx |-> coinbase_tx]),
        history |-> add_row(no_rows, "a1", earlier_row),
        stealth |-> <<>> ] }

\* db_interface's constructor and start() over the tables given.
DbStart(tables, active_heights) ==
    /\ db = tables
    /\ disk = db
    /\ active_heights_ = active_heights
    /\ push_pc = "idle"
    /\ push_i = 0
    /\ push_block = [header |-> "h1", transactions |-> <<>>]
    /\ push_from = null_height
    /\ push_added = <<>>
    /\ pushed = <<>>
    /\ popped = NoPush
    /\ pushes = 0
    /\ pops = 0
    /\ db_crashes = 0
    /\ cut = NoPush
    /\ repeated = NoPush

InitDb ==
    \E tables \in InitTables :
        \E active_heights \in {[history |-> 0], [history |-> 1]} :
            DbStart(tables, active_heights)

\* A new chain, as initialize_blockchain leaves it.
InitDbNew == DbStart(new_chain, [history |-> 0])

NextDb ==
    \/ \E block \in Blocks : DbPush(block)
    \/ DbPop

NextDbCut ==
    \/ \E block \in CutBlocks : PushBegin(block)
    \/ PushTx
    \/ PushSync
    \/ DbCrash

\* C12: the block pop() returns is the block of the push() it undoes:
\* the same header and the same transactions in the same order.
C12_PopReturnsPushed ==
    popped.found => popped.block = popped.of.block

\* Away from the two special heights, and at them for a block without
\* transactions, C12 holds.
C12_AwayFromSpecialHeights ==
    (/\ popped.found
     /\ \/ popped.height \notin {special_height_1, special_height_2}
        \/ popped.of.block.transactions = <<>>)
        => /\ popped.block = popped.of.block
           /\ ~popped.null_read
           /\ ~popped.assert_failed

\* The case of C12's failure: a block with a transaction has been pushed
\* at a special height and popped, and pop has read a null result.
C12_SpecialPopped ==
    /\ popped.found
    /\ popped.height = special_height_1
    /\ popped.null_read

\* C13: pop() leaves the history lists, the spends and the transactions as
\* they were before the push() it undoes, and deletes the history rows
\* the push added, each of them, in the reverse of the order they were
\* added in.
C13_PopUndoesPush ==
    popped.found =>
        /\ popped.after.history = popped.of.before.history
        /\ popped.after.spends = popped.of.before.spends
        /\ popped.after.transactions = popped.of.before.transactions
        /\ popped.deleted = Reverse(popped.of.added)

C13_AwayFromSpecialHeights ==
    (/\ popped.found
     /\ \/ popped.height \notin {special_height_1, special_height_2}
        \/ popped.of.block.transactions = <<>>)
        => /\ popped.after.history = popped.of.before.history
           /\ popped.after.spends = popped.of.before.spends
           /\ popped.after.transactions = popped.of.before.transactions
           /\ popped.deleted = Reverse(popped.of.added)
           /\ \A i \in 1..Len(popped.deleted) :
                  /\ popped.deleted[i][2] # NoEntry
                  /\ popped.deleted[i][2].height = popped.height

\* The case of C13's failure: the pop at a special height has deleted a
\* history row of an earlier block.
C13_EarlierRowDeleted ==
    /\ popped.found
    /\ \E i \in 1..Len(popped.deleted) :
           /\ popped.deleted[i][2] # NoEntry
           /\ popped.deleted[i][2].height = earlier_height

\* The tables other than blocks.
SubTables == {"spends", "transactions", "history", "stealth"}

RECURSIVE SlabsEnd(_, _)
SlabsEnd(slabs, n) ==
    IF n = 0 THEN 8
    ELSE SlabsEnd(slabs, n - 1) + (hash_size + 8 + slabs[n].value_size)

\* C23: after n stores with value sizes s_1 .. s_n, any unlinks, and
\* sync(), payload_end in the file is 8 plus the sum of the
\* sizeof(K) + 8 + s_i: the payload_end of the file is that of the stores
\* made before the last sync, every slab begins where the one before it
\* ends, and the allocator's payload_end is the end of the last slab.
C23_PayloadEndIsSumOfSlabs ==
    /\ alloc_start(slab_file) = SlabsEnd(slab_log.slabs, slab_log.synced)
    /\ \A n \in 1..Len(slab_log.slabs) :
         slab_log.slabs[n].position = SlabsEnd(slab_log.slabs, n - 1)
    /\ ~crashed => alloc_end = SlabsEnd(slab_log.slabs, Len(slab_log.slabs))

\* C23 witness: two stores with values of different sizes, an unlink that
\* took an item out of its chain, and a sync after them.
C23_Witness ==
    /\ ~crashed
    /\ st_pc = "idle"
    /\ slab_log.synced = 2
    /\ slab_log.slabs[1].value_size # slab_log.slabs[2].value_size
    /\ unlink_ret
    /\ \E k \in Keys : stack[k] # <<>>
    /\ alloc_start(slab_file) = 8 + (hash_size + 8 + 1) + (hash_size + 8 + 2)

(***************************************************************************)
(* Further properties of hdb_shard                                         *)
(***************************************************************************)

\* The step is a whole sync(height) that follows a sync of the same height
\* with no add and no unlink in between.
SecondSync ==
    /\ last_op.op = "sync"
    /\ syncs' = syncs + 1
    /\ last_op' = last_op

\* C21: a second sync(height) with no add, store or unlink since the first
\* leaves entries_end_, the first 8 bytes of the file, the height index and
\* every byte of the entries as the first call left them.
C21_SyncIdempotent ==
    [][SecondSync
          => /\ entries_end' = entries_end
             /\ ReadAt(shard_file', 0, entries_end)
                  = ReadAt(shard_file, 0, entries_end)]_vars

\* The case of C21's failure: add, sync(0), sync(0).  The second sync has
\* appended an entry without rows and heights[0] now gives its position,
\* so that the scan from height 0 no longer reads the row.
C21_SecondSyncRelinked ==
    /\ last_op = [op |-> "sync", height |-> 0]
    /\ syncs = 2
    /\ unlinks = 0
    /\ Len(live) = 2
    /\ live[1].rows # <<>>
    /\ live[2].rows = <<>>
    /\ entry_position(shard_file, 0) = live[2].entry
    /\ entries_end = live[2].entry + entry_header_size
    /\ scan(shard_file, entries_end, <<>>, 0) = <<>>

\* The rows of the entry at position entry as the file holds them: the key
\* bytes and the value of each.
stored_rows_of(file, entry) ==
    [k \in 1..from_little_endian_2(ReadAt(file, entry, 2)) |->
        ReadAt(file, entry + entry_header_size + (k - 1) * row_size, row_size)]

\* The bytes add() was given for a row, as write_rows lays them out.
row_bytes(row) == to_block_range(row.scan_key) \o row.value

\* The two sequences hold the same elements the same number of times.
SameRows(a, b) ==
    /\ Len(a) = Len(b)
    /\ \A x \in {a[i] : i \in 1..Len(a)} :
         Cardinality({i \in 1..Len(a) : a[i] = x})
           = Cardinality({i \in 1..Len(b) : b[i] = x})

\* What does hold of C25, for buffers of few rows: add only buffers the
\* row; the next sync writes one entry whose row_count is the number of
\* adds since the sync before and whose rows are the rows of those adds,
\* each once; it leaves the buffer empty and the entries written before as
\* they were, so that no row is lost or written again.
RowsInNextEntryOnly ==
    /\ [][adds' = adds + 1 =>
             /\ shard_file' = shard_file
             /\ entries_end' = entries_end
             /\ Len(rows') = Len(rows) + 1
             /\ SubSeq(rows', 1, Len(rows)) = rows]_vars
    /\ [][syncs' = syncs + 1 =>
             /\ rows' = <<>>
             /\ from_little_endian_2(ReadAt(shard_file', entries_end, 2))
                  = Len(rows)
             /\ SameRows(stored_rows_of(shard_file', entries_end),
                         [i \in 1..Len(rows) |-> row_bytes(rows[i])])
             /\ entries_end' = entries_end + entry_header_size
                                 + row_size * Len(rows)
             /\ \A o \in initial_entries_end..(entries_end - 1) :
                  o < Len(shard_file) => shard_file'[o + 1] = shard_file[o + 1]]_vars

\* An add and a sync, then an add and a second sync: the file holds two
\* entries of one row each, the row of the first add in the first and
\* that of the second add in the second.
TwoEntriesOfOneRow ==
    /\ last_op.op = "sync"
    /\ adds = 2
    /\ syncs = 2
    /\ unlinks = 0
    /\ rows = <<>>
    /\ Len(stored_rows_of(shard_file, initial_entries_end)) = 1
    /\ stored_rows_of(shard_file, initial_entries_end)[1][row_size]
         = RowValue(1)[1]
    /\ Len(stored_rows_of(shard_file,
              initial_entries_end + entry_header_size + row_size)) = 1
    /\ stored_rows_of(shard_file,
          initial_entries_end + entry_header_size + row_size)[1][row_size]
         = RowValue(2)[1]
    /\ entries_end = initial_entries_end + 2 * entry_header_size + 2 * row_size

RECURSIVE ChainLands(_, _, _)
ChainLands(file, end, entry) ==
    IF entry = end THEN TRUE
    ELSE IF entry > end \/ entry + 2 > Len(file) THEN FALSE
    ELSE ChainLands(file, end, entry + calc_entry_size(file, entry))

\* C27: after initialize_new and any sequence of add, sync(height) and
\* unlink(height > 0), entries_end is at least 8 + 8 * shard_max_entries,
\* and advancing from there by calc_entry_size of each entry arrives at
\* entries_end exactly.
C27_EntryChainEndsAtEntriesEnd ==
    /\ entries_end >= initial_entries_end
    /\ ChainLands(shard_file, entries_end, initial_entries_end)

\* What does hold of the chain: the same when every sync was for the
\* height after the live entries and every unlink for a height that has a
\* live entry before it.
ChainEndsAtEntriesEndInOrder ==
    in_order => C27_EntryChainEndsAtEntriesEnd

\* The case of C27's failure: unlink(height) for a height whose
\* predecessor was never synced has put entries_end where no chain of
\* entries ends.
C27_UnlinkBrokeChain ==
    /\ last_op.op = "unlink"
    /\ last_op.height > 0
    /\ syncs = 0
    /\ entries_end > initial_entries_end
    /\ entries_end > Len(shard_file)
    /\ start(shard_file) = entries_end

\* The height has no entry: no sync was made for it and nothing was
\* unlinked, or the last call was unlink(h) for a height h at or below it.
HasNoEntry(height) ==
    \/ unlinks = 0 /\ height \notin LiveHeights
    \/ last_op.op = "unlink" /\ height >= last_op.height

\* C28: scan(p, f, from_height) for a from_height that has no entry ends
\* without a call of f and reads nothing outside the entries: it begins at
\* entries_end or at an entry below it, and hands nothing to f.
C28_ScanOfNoEntryIsEmpty ==
    \A height \in Heights :
        (HasNoEntry(height) /\ sy_pc = "idle") =>
            /\ \/ entry_position(shard_file, height) = entries_end
               \/ /\ entry_position(shard_file, height) >= initial_entries_end
                  /\ entry_position(shard_file, height) < entries_end
            /\ \A p \in Prefixes :
                 scan(shard_file, entries_end, p, height) = <<>>

\* The case of C28's failure: on a shard with one synced entry, the scan
\* from a height that was never synced begins at offset 0, inside the
\* header, hands bytes of the height index to f as values and goes on
\* beyond the end of the file.
C28_ScanFromHeader ==
    /\ syncs = 1
    /\ unlinks = 0
    /\ Len(live) = 1
    /\ \E height \in Heights \ LiveHeights :
         /\ entry_position(shard_file, height) = 0
         /\ Len(scan(shard_file, entries_end, <<>>, height)) > 1
         /\ scan(shard_file, entries_end, <<>>, height)[
                Len(scan(shard_file, entries_end, <<>>, height))] = WildPos

\* C29: the assertions of write_buckets hold for every set of rows sync
\* writes: begin_bucket <= end_bucket at every row and
\* begin_bucket < number_buckets after the last row, rows in the highest
\* bucket included.
C29_WriteBucketsAssertsHold == ~assert_failed

\* The case of C29's failure: the one entry synced has a row whose leading
\* bucket_bitsize bits are all ones, and the assertion after the loop has
\* not held; the assertion inside the loop holds at every row.
C29_HighestBucketAsserted ==
    /\ assert_failed
    /\ syncs = 1
    /\ Len(live) = 1
    /\ \E i \in 1..Len(live[1].rows) :
         which_bucket(live[1].rows[i].scan_key, settings.bucket_bitsize)
           = number_buckets - 1
    /\ \A sorted \in sort_rows(live[1].rows) :
         /\ ~write_buckets_asserts(sorted)
         /\ \A i \in 1..(Len(sorted) - 1) :
              which_bucket(sorted[i].scan_key, settings.bucket_bitsize)
                <= which_bucket(sorted[i + 1].scan_key, settings.bucket_bitsize)

(***************************************************************************)
(* hdb_shard::sync on entries of many rows                                 *)
(*   src/src/database/hdb_shard.cpp                                        *)
(*                                                                         *)
(* The header of an entry depends on the rows through their number in      *)
(* each bucket only, so the buffer rows_ is kept as those numbers and an   *)
(* entry as the header sync writes for it.                                 *)
(***************************************************************************)

\* Bounds on the runs explored: calls that add rows, and syncs.
MaxLargeAdds == 3

MaxLargeSyncs == 2

\* The largest value of uint16_t, the type of write_2_bytes' value.
max_uint16 == 65535

\* The numbers of add calls taken as one step.
AddCounts == {1, max_uint16}

BucketIndexes == 0..(number_buckets - 1)

RECURSIVE rows_below(_, _)
\* rows_.size() when bucket is number_buckets, and the index of the first
\* row of the bucket or of a later one otherwise: the number of rows in
\* the buckets below it.
rows_below(counts, bucket) ==
    IF bucket = 0 THEN 0
    ELSE counts[bucket - 1] + rows_below(counts, bucket - 1)

\* write_buckets on sorted rows with counts[b] rows in bucket b: bucket b
\* gets the index i of the first row whose bucket is b or more, or
\* rows.size() when there is none, each through write_2_bytes, whose
\* value is a uint16_t.
write_buckets_of(counts) ==
    [b \in BucketIndexes |-> to_little_endian_2(rows_below(counts, b))]

\* hdb_shard::sync: the header written at entries_end_ and the entry_size
\* entries_end_ moves by.
sync_header(counts, position) ==
    [ position |-> position,
      rows |-> counts,
      row_count |-> to_little_endian_2(rows_below(counts, number_buckets)),
      buckets |-> write_buckets_of(counts),
      entry_size |-> entry_header_size
                       + row_size * rows_below(counts, number_buckets) ]

\* hdb_shard::calc_entry_size on the header of an entry.
calc_entry_size_of(entry) ==
    entry_header_size + row_size * from_little_endian_2(entry.row_count)

\* count calls of add, with keys of one bucket.
LargeAdd(count, bucket) ==
    /\ lg_adds < MaxLargeAdds
    /\ lg_rows' = [lg_rows EXCEPT ![bucket] = @ + count]
    /\ lg_adds' = lg_adds + 1
    /\ UNCHANGED <<lg_end, lg_entries, lg_syncs>>
    /\ UNCHANGED not_large_vars

\* hdb_shard::sync
LargeSync ==
    /\ lg_syncs < MaxLargeSyncs
    /\ lg_entries' = Append(lg_entries, sync_header(lg_rows, lg_end))
    /\ lg_end' = lg_end + sync_header(lg_rows, lg_end).entry_size
    /\ lg_rows' = [b \in BucketIndexes |-> 0]
    /\ lg_syncs' = lg_syncs + 1
    /\ UNCHANGED lg_adds
    /\ UNCHANGED not_large_vars

InitLarge ==
    /\ lg_rows = [b \in BucketIndexes |-> 0]
    /\ lg_end = initial_entries_end
    /\ lg_entries = <<>>
    /\ lg_adds = 0
    /\ lg_syncs = 0

NextLarge ==
    \/ \E count \in AddCounts, bucket \in BucketIndexes :
           LargeAdd(count, bucket)
    \/ LargeSync

\* C30: for every entry sync has written, calc_entry_size read back from
\* its row_count is the entry_size sync moved entries_end_ by, and every
\* stored bucket value is the row index it stands for, whatever the number
\* of rows, 2^16 and more included.
C30_HeaderFitsRows ==
    \A n \in 1..Len(lg_entries) :
        /\ calc_entry_size_of(lg_entries[n]) = lg_entries[n].entry_size
        /\ \A b \in BucketIndexes :
             from_little_endian_2(lg_entries[n].buckets[b])
               = rows_below(lg_entries[n].rows, b)

\* C25: the row_count of the entry a sync writes is the number of add
\* calls since the sync before it, whatever that number.
C25_RowCountIsNumberOfAdds ==
    \A n \in 1..Len(lg_entries) :
        from_little_endian_2(lg_entries[n].row_count)
          = rows_below(lg_entries[n].rows, number_buckets)

\* The case of C25's failure: the second sync has written an entry for
\* 2^16 adds with the row_count 0, after a first entry of one row whose
\* row_count is right.
C25_RowCountOfManyAdds ==
    /\ Len(lg_entries) = 2
    /\ rows_below(lg_entries[1].rows, number_buckets) = 1
    /\ from_little_endian_2(lg_entries[1].row_count) = 1
    /\ rows_below(lg_entries[2].rows, number_buckets) = max_uint16 + 1
    /\ from_little_endian_2(lg_entries[2].row_count) = 0

\* What does hold of the headers: the same for the entries of at most
\* 2^16 - 1 rows.
HeaderFitsFewerRows ==
    \A n \in 1..Len(lg_entries) :
        rows_below(lg_entries[n].rows, number_buckets) <= max_uint16 =>
            /\ calc_entry_size_of(lg_entries[n]) = lg_entries[n].entry_size
            /\ \A b \in BucketIndexes :
                 from_little_endian_2(lg_entries[n].buckets[b])
                   = rows_below(lg_entries[n].rows, b)

\* The case of C30's failure: an entry of 2^16 rows has the row_count 0,
\* so that calc_entry_size gives the size of its header alone, while
\* entries_end_ has moved past all its rows.
C30_RowCountWrapped ==
    /\ Len(lg_entries) = 1
    /\ rows_below(lg_entries[1].rows, number_buckets) = max_uint16 + 1
    /\ from_little_endian_2(lg_entries[1].row_count) = 0
    /\ calc_entry_size_of(lg_entries[1]) = entry_header_size
    /\ lg_end = initial_entries_end + entry_header_size
                  + row_size * (max_uint16 + 1)

(***************************************************************************)
(* The write path over the mapped file: hdb_shard::sync and                *)
(* htdb_slab::store statement by statement, with the base pointers they    *)
(* take from data() and the resizes they make                              *)
(*   src/src/database/hdb_shard.cpp, src/unnamed/part_000,                 *)
(*   src/include/bitcoin/database/impl/htdb_slab_list_item.ipp             *)
(***************************************************************************)

\* Bounds on the runs explored: the operations begun and the bytes one
\* operation adds to the file.
MaxWpOps == 2

MaxWpSpace == 2

\* Mutant of sync_statements: the serializer is made before reserve.
sync_statements_pointer_first ==
    <<"sort_rows", "pointer", "reserve", "write", "relocate", "link">>

\* hdb_shard::sync: sort_rows(); reserve(entry_size);
\* serial = make_serializer(file_.data() + entry_position); the writes of
\* the entry through serial; entries_end_ += entry_size; link().
sync_statements ==
    <<"sort_rows", "reserve", "pointer", "write", "relocate", "link">>

\* Mutant of store_statements: create keeps the pointer the constructor
\* took and does not call get_slab after new_slab.
store_statements_pointer_kept ==
    <<"read", "pointer", "new_slab", "write", "write", "link">>

\* htdb_slab::store: read_bucket_value(key); the item's constructor,
\* raw_data_ = get_slab(0); in create new_slab(slab_size), then
\* raw_data_ = get_slab(slab) and the writes of key and next through it;
\* write(item.data()); link(key, new_begin).
store_statements ==
    <<"read", "pointer", "new_slab", "pointer", "write", "write", "link">>

statements(op) ==
    IF op = "sync" THEN sync_statements ELSE store_statements

\* hdb_shard::reserve and slab_allocator::new_slab: the size the file is
\* resized to, or 0 when what is required fits.
reserve_new_size(size, required_size) ==
    IF required_size <= size THEN 0 ELSE (required_size * 3) \div 2

new_slab_new_size(size, required_size) ==
    IF required_size <= size THEN 0
    ELSE Max2((size * 3) \div 2, required_size)

NoPointer == [base |-> 0, fresh |-> TRUE, held |-> FALSE]

NoAccess == [op |-> "none", statement |-> "none", fresh |-> TRUE,
             resized |-> FALSE]

\* An operation begins: sync with an entry of space_needed bytes, or store
\* with a slab of that size.
WpBegin(op, space_needed) ==
    /\ wp_pc = 0
    /\ wp_ops < MaxWpOps
    /\ wp_op' = op
    /\ wp_space' = space_needed
    /\ wp_pc' = 1
    /\ wp_ptr' = NoPointer
    /\ wp_resized' = FALSE
    /\ wp_ops' = wp_ops + 1
    /\ UNCHANGED <<wp_stale, wp_access>>
    /\ UNCHANGED mm_vars
    /\ UNCHANGED not_wp_vars

\* The next statement of the operation under way.  A statement that
\* resizes leaves every pointer taken before it stale, whether or not the
\* mapping has moved; a statement that writes through the pointer held
\* uses it as it is; link and the read of the bucket take data() anew.
WpStatement(fail, base) ==
    /\ wp_pc > 0
    /\ mm_mremap => fail # "munmap"
    /\ LET statement == statements(wp_op)[wp_pc]
           required_size == mm_end + wp_space
           new_size == IF statement = "reserve"
                       THEN reserve_new_size(size_, required_size)
                       ELSE IF statement = "new_slab"
                       THEN new_slab_new_size(size_, required_size)
                       ELSE 0
           st == IF new_size = 0 THEN MmState
                 ELSE mmfile_resize(MmState, new_size, fail, base)
       IN /\ new_size = 0 => (fail = "none" /\ base = mm_bases + 1)
          /\ mm_length' = st.length
          /\ data_' = st.data
          /\ size_' = st.size
          /\ mm_mapped' = st.mapped
          /\ mm_failed' = (mm_failed \/ ~st.ret)
          /\ mm_bases' = IF base > mm_bases /\ st.data = base THEN base
                         ELSE mm_bases
          /\ wp_resized' = (wp_resized \/ new_size # 0)
          /\ wp_ptr' = IF statement = "pointer"
                       THEN [base |-> data_, fresh |-> TRUE, held |-> TRUE]
                       ELSE IF new_size # 0
                       THEN [wp_ptr EXCEPT !.fresh = FALSE]
                       ELSE wp_ptr
          /\ mm_end' = IF statement \in {"new_slab", "relocate"}
                       THEN required_size ELSE mm_end
          /\ IF statement = "write"
             THEN /\ wp_access' = [op |-> wp_op, statement |-> statement,
                                   fresh |-> wp_ptr.held /\ wp_ptr.fresh,
                                   resized |-> wp_resized]
                  /\ wp_stale' = (wp_stale \/ ~(wp_ptr.held /\ wp_ptr.fresh))
             ELSE IF statement \in {"read", "link"}
             THEN /\ wp_access' = [op |-> wp_op, statement |-> statement,
                                   fresh |-> TRUE, resized |-> wp_resized]
                  /\ UNCHANGED wp_stale
             ELSE UNCHANGED <<wp_access, wp_stale>>
    /\ wp_pc' = IF wp_pc = Len(statements(wp_op)) THEN 0 ELSE wp_pc + 1
    /\ UNCHANGED <<mm_mremap, resizes, mm_writes, mm_last>>
    /\ UNCHANGED <<wp_op, wp_space, wp_ops>>
    /\ UNCHANGED not_wp_vars

InitWp ==
    /\ wp_op = "none"
    /\ wp_pc = 0
    /\ wp_space = 0
    /\ wp_ptr = NoPointer
    /\ wp_resized = FALSE
    /\ wp_stale = FALSE
    /\ wp_access = NoAccess
    /\ wp_ops = 0

NextWp ==
    \/ \E op \in {"sync", "store"}, space_needed \in 1..MaxWpSpace :
           WpBegin(op, space_needed)
    \/ \E fail \in Failures, base \in Bases : WpStatement(fail, base)

\* C24: on the write path no byte is read or written through a base
\* pointer taken from data() before a resize made in the same operation:
\* every write of sync and of store goes through a pointer taken after the
\* last resize of the operation, and link and the read of the bucket take
\* their pointer when they run.
C24_PointersTakenAfterResize ==
    /\ ~wp_stale
    /\ wp_access.fresh
    /\ (wp_pc > 0 /\ statements(wp_op)[wp_pc] = "write") =>
          (wp_ptr.held /\ wp_ptr.fresh)

\* C24 witness: a sync, and a store before or after it, have both resized
\* the file and moved the mapping, and the operation under way has written
\* after its resize.
C24_Witness ==
    /\ wp_ops = 2
    /\ wp_access.statement = "write"
    /\ wp_access.resized
    /\ wp_access.fresh
    /\ wp_ptr.base = data_
    /\ data_ > 2
    /\ data_ \in mm_mapped

(***************************************************************************)
(* record_multimap: a hash table from a key to the head of a list of       *)
(* values kept in a record_list                                            *)
(*                                                                         *)
(* The hash table holds, for a key, the index of the first node of its     *)
(* list; a node of the record_list is [next][value]; the index of the      *)
(* n-th record created is n - 1.                                           *)
(***************************************************************************)

MaxMultiKeys == 2

MaxMultiAdds == 4

MaxMultiDeletes == 3

MultiKeys == 1..MaxMultiKeys

\* The index that ends a list and stands for "no list": all bits set.
record_list_empty == 0 - 1

\* record_list::create: a new record that holds next and the value; its
\* index is the number of records before it.
record_list_create(list, value, next) ==
    Append(list, [next |-> next, value |-> value])

\* record_list::next
record_list_next(list, index) == list[index + 1].next

\* record_list::get
record_list_get(list, index) == list[index + 1].value

\* record_hash_table::update: the payload of the first entry of the key.
RECURSIVE table_update(_, _, _)
table_update(entries, key, value) ==
    IF entries = <<>> THEN <<>>
    ELSE IF Head(entries).key = key
         THEN <<[Head(entries) EXCEPT !.value = value]>> \o Tail(entries)
    ELSE <<Head(entries)>> \o table_update(Tail(entries), key, value)

\* record_multimap::lookup
multimap_lookup(table_, key) ==
    IF table_get(table_, key).found THEN table_get(table_, key).value
    ELSE record_list_empty

\* Mutant of add: the new node does not point to the old head.
multimap_add_alone(m, key, value) ==
    [table |-> IF table_get(m.table, key).found
               THEN table_update(m.table, key, Len(m.list))
               ELSE table_store(m.table, key, Len(m.list)),
     list |-> record_list_create(m.list, value, record_list_empty)]

\* record_multimap::add: for a key that is present a node in front of its
\* list and the head index overwritten; otherwise a node that ends the
\* list and a new hash entry for it.
multimap_add(m, key, value) ==
    IF table_get(m.table, key).found
    THEN [table |-> table_update(m.table, key, Len(m.list)),
          list |-> record_list_create(m.list, value,
                       multimap_lookup(m.table, key))]
    ELSE [table |-> table_store(m.table, key, Len(m.list)),
          list |-> record_list_create(m.list, value, record_list_empty)]

\* record_multimap::delete_last: the head node leaves the list; the hash
\* entry goes with the only node.
multimap_delete_last(m, key) ==
    LET next_index == record_list_next(m.list, multimap_lookup(m.table, key))
    IN [table |-> IF next_index = record_list_empty
                  THEN table_remove(m.table, key)
                  ELSE table_update(m.table, key, next_index),
        list |-> m.list]

\* The caller's iteration: the values from index on, following next.
RECURSIVE multimap_values(_, _)
multimap_values(list, index) ==
    IF index = record_list_empty THEN <<>>
    ELSE <<record_list_get(list, index)>>
           \o multimap_values(list, record_list_next(list, index))

Multimap == [table |-> rm_table, list |-> rm_list]

\* add(key, write) with the value that names this call.
MultimapAdd(key) ==
    /\ rm_adds < MaxMultiAdds
    /\ LET m == multimap_add(Multimap, key, rm_adds + 1) IN
        /\ rm_table' = m.table
        /\ rm_list' = m.list
    /\ rm_stack' = [rm_stack EXCEPT ![key] = <<rm_adds + 1>> \o @]
    /\ rm_adds' = rm_adds + 1
    /\ rm_last' = [op |-> "add", key |-> key, before |-> rm_stack]
    /\ UNCHANGED rm_deletes
    /\ UNCHANGED not_multimap_vars

\* delete_last(key) for a key that has a list.
MultimapDeleteLast(key) ==
    /\ rm_deletes < MaxMultiDeletes
    /\ table_get(rm_table, key).found
    /\ LET m == multimap_delete_last(Multimap, key) IN
        /\ rm_table' = m.table
        /\ rm_list' = m.list
    /\ rm_stack' = [rm_stack EXCEPT ![key] = Tail(@)]
    /\ rm_deletes' = rm_deletes + 1
    /\ rm_last' = [op |-> "delete_last", key |-> key, before |-> rm_stack]
    /\ UNCHANGED rm_adds
    /\ UNCHANGED not_multimap_vars

InitMultimap ==
    /\ rm_table = <<>>
    /\ rm_list = <<>>
    /\ rm_stack = [k \in MultiKeys |-> <<>>]
    /\ rm_adds = 0
    /\ rm_deletes = 0
    /\ rm_last = [op |-> "none", key |-> 0, before |-> rm_stack]

NextMultimap ==
    \/ \E key \in MultiKeys : MultimapAdd(key)
    \/ \E key \in MultiKeys : MultimapDeleteLast(key)

\* C22: the list of every key, walked from lookup(key) by next, yields the
\* values added under the key and not deleted, the newest first: after
\* add(k, v1) .. add(k, vn) it yields vn, .., v1; delete_last(k) takes the
\* head vn away; when the list is left without a value the hash entry is
\* gone and lookup(k) is the terminator; the lists of other keys stay.
C22_ListIsLifo ==
    \A k \in MultiKeys :
        /\ multimap_values(rm_list, multimap_lookup(rm_table, k)) = rm_stack[k]
        /\ table_get(rm_table, k).found = (rm_stack[k] # <<>>)
        /\ (rm_stack[k] = <<>>) = (multimap_lookup(rm_table, k) = record_list_empty)
        /\ rm_last.op = "add" =>
             rm_stack[k] = IF k = rm_last.key
                           THEN <<rm_adds>> \o rm_last.before[k]
                           ELSE rm_last.before[k]
        /\ rm_last.op = "delete_last" =>
             rm_stack[k] = IF k = rm_last.key
                           THEN Tail(rm_last.before[k])
                           ELSE rm_last.before[k]

\* C22 witness: delete_last took the newest of three values of a key, and
\* earlier a delete_last took the only value of another key.
C22_Witness ==
    /\ rm_last.op = "delete_last"
    /\ rm_deletes = 2
    /\ Len(rm_last.before[rm_last.key]) = 3
    /\ multimap_values(rm_list, multimap_lookup(rm_table, rm_last.key))
         = Tail(rm_last.before[rm_last.key])
    /\ \E k \in MultiKeys :
         /\ k # rm_last.key
         /\ ~table_get(rm_table, k).found
         /\ multimap_lookup(rm_table, k) = record_list_empty

(***************************************************************************)
(* hdb_shard: sync with any height                                         *)
(***************************************************************************)

\* sync() and link() have no test of height against shard_max_entries:
\* these are heights with a slot in the index and the first two without.
HeightsPassed == 0..(settings.shard_max_entries + 1)

\* One user of the shard who passes any height to sync.
NextShardAny ==
    \/ \E scan_key \in ScanKeys : ShardAdd(scan_key, MaxAdds)
    \/ \E height \in HeightsPassed : ShardSync(height)

\* The 8 bytes link() writes the position of the entry to.
SlotOf(height) == (8 + 8 * height)..(8 + 8 * height + 7)

\* The step is a whole sync(height).
SyncStep == syncs' = syncs + 1

\* C31: sync(height) changes only the 8 bytes of entries_end, the index
\* slot heights[height] and the bytes of the entry it appends at the old
\* entries_end: the slots of the other heights and the bytes of the
\* entries written before are unchanged, for every height passed.
C31_SyncFrame ==
    [][SyncStep
          => \A o \in 8..(entries_end - 1) :
                (o < Len(shard_file) /\ shard_file'[o + 1] # shard_file[o + 1])
                  => /\ last_op'.height \in Heights
                     /\ o \in SlotOf(last_op'.height)]_vars

\* The same for the heights that have a slot in the index.
SyncFrameWithinIndex ==
    [][(SyncStep /\ last_op'.height \in Heights)
          => \A o \in 8..(entries_end - 1) :
                (o < Len(shard_file) /\ shard_file'[o + 1] # shard_file[o + 1])
                  => o \in SlotOf(last_op'.height)]_vars

\* The case of C31's failure: sync(0), sync(shard_max_entries).  The
\* position of the second entry is written over the first bytes of the
\* first entry, which is the first byte after the index.
C31_EntryOverwritten ==
    /\ syncs = 2
    /\ Len(live) = 2
    /\ live[1].height = 0
    /\ last_op = [op |-> "sync", height |-> settings.shard_max_entries]
    /\ entry_position(shard_file, 0) = initial_entries_end
    /\ ReadAt(shard_file, initial_entries_end, 8)
         = to_little_endian(live[2].entry)
    /\ calc_entry_size(shard_file, initial_entries_end)
         # live[2].entry - live[1].entry

(***************************************************************************)
(* simple_chain_impl: append and release over db_interface                 *)
(*   src/unnamed/part_005                                                  *)
(*                                                                         *)
(* Of push and pop only what they do to the block table is kept: that is   *)
(* what last_height() reads and what decides the loop of release.  The     *)
(* blocks have no transactions.                                            *)
(***************************************************************************)

\* Bounds on the runs explored.
MaxAppends == 3

MaxReleases == 2

\* Calls of pop on a chain without blocks that hand back a block.
MaxEmptyPops == 2

\* A size_t is written as its value when that is small and as -k when it is
\* 2^64 - k, as null_height is.  --height: 0 becomes the largest size_t.
decrement(height) == height - 1

\* a >= b on size_t.
at_least(a, b) == IF (a < 0) = (b < 0) THEN a >= b ELSE a < 0

genesis_block == [header |-> "h1", transactions |-> <<>>]

\* simple_chain_impl::append
ChainAppend(block_header) ==
    /\ sc_pc \in {"idle", "returned"}
    /\ sc_appends < MaxAppends
    /\ sc_blocks' = blocks_store(sc_blocks,
                           [header |-> block_header, transactions |-> <<>>])
    /\ sc_assert_failed' =
           (sc_assert_failed \/ last_height(sc_blocks) = null_height)
    /\ sc_appends' = sc_appends + 1
    /\ sc_pc' = "idle"
    /\ UNCHANGED <<sc_begin, sc_last, sc_height, sc_released, sc_pops,
                   sc_empty_pops, sc_releases>>
    /\ UNCHANGED not_chain_vars

\* release up to the loop: last_height is read and asserted on, and height
\* starts from it.  The chain has a block and begin_index <= last_height.
ReleaseBegin(begin_index) ==
    /\ sc_pc \in {"idle", "returned"}
    /\ sc_releases < MaxReleases
    /\ sc_blocks.recs # <<>>
    /\ at_least(last_height(sc_blocks), begin_index)
    /\ sc_begin' = begin_index
    /\ sc_last' = last_height(sc_blocks)
    /\ sc_height' = last_height(sc_blocks)
    /\ sc_assert_failed' =
           (sc_assert_failed \/ last_height(sc_blocks) = null_height
              \/ ~(last_height(sc_blocks) > 0))
    /\ sc_released' = <<>>
    /\ sc_pops' = 0
    /\ sc_empty_pops' = 0
    /\ sc_releases' = sc_releases + 1
    /\ sc_pc' = "loop"
    /\ UNCHANGED <<sc_blocks, sc_appends>>
    /\ UNCHANGED not_chain_vars

\* A hand back of pop that is no block of the chain.
garbage_block == [height |-> null_height, header |-> "garbage"]

\* One turn of the loop of release while height >= begin_index: pop and
\* push_back, then --height.  pop on a chain without blocks reads through a
\* null block_result (its assertion is compiled out of a release build):
\* the process faults, or pop hands back what it read.
ReleasePop(faults) ==
    /\ sc_pc = "loop"
    /\ at_least(sc_height, sc_begin)
    /\ IF sc_blocks.recs # <<>>
       THEN /\ ~faults
            /\ sc_released' = Append(sc_released,
                   [height |-> last_height(sc_blocks),
                    header |-> sc_blocks.recs[Len(sc_blocks.recs)].header])
            /\ sc_pc' = "loop"
            /\ UNCHANGED sc_empty_pops
       ELSE /\ faults \/ sc_empty_pops < MaxEmptyPops
            /\ sc_released' = IF faults THEN sc_released
                              ELSE Append(sc_released, garbage_block)
            /\ sc_pc' = IF faults THEN "fault" ELSE "loop"
            /\ sc_empty_pops' = sc_empty_pops + 1
    /\ sc_blocks' = blocks_unlink(sc_blocks, last_height(sc_blocks))
    /\ sc_pops' = sc_pops + 1
    /\ sc_height' = decrement(sc_height)
    /\ UNCHANGED <<sc_begin, sc_last, sc_assert_failed, sc_appends,
                   sc_releases>>
    /\ UNCHANGED not_chain_vars

\* The loop of release ends: height < begin_index, return true.
ReleaseReturn ==
    /\ sc_pc = "loop"
    /\ ~at_least(sc_height, sc_begin)
    /\ sc_pc' = "returned"
    /\ UNCHANGED <<sc_blocks, sc_begin, sc_last, sc_height, sc_released,
                   sc_pops, sc_empty_pops, sc_assert_failed, sc_appends,
                   sc_releases>>
    /\ UNCHANGED not_chain_vars

\* A chain as initchain leaves it: the genesis block pushed.
InitChain ==
    /\ sc_blocks = blocks_store([first |-> 0, recs |-> <<>>], genesis_block)
    /\ sc_pc = "idle"
    /\ sc_begin = 0
    /\ sc_last = 0
    /\ sc_height = 0
    /\ sc_released = <<>>
    /\ sc_pops = 0
    /\ sc_empty_pops = 0
    /\ sc_assert_failed = FALSE
    /\ sc_appends = 0
    /\ sc_releases = 0

NextChain ==
    \/ \E block_header \in Headers : ChainAppend(block_header)
    \/ \E begin_index \in 0..MaxAppends : ReleaseBegin(begin_index)
    \/ \E faults \in BOOLEAN : ReleasePop(faults)
    \/ ReleaseReturn

\* The heights last, last - 1, ..., begin.
Descending(last, begin) == [i \in 1..(last - begin + 1) |-> last + 1 - i]

\* C32: release(begin_index, released) with begin_index <= last_height,
\* begin_index = 0 included, never calls pop on an empty chain and returns
\* after last_height - begin_index + 1 calls of pop with the popped blocks
\* appended in descending order of height.
C32_ReleasePopsDownToBegin ==
    /\ sc_empty_pops = 0
    /\ sc_pc # "fault"
    /\ sc_pc = "returned"
         => /\ sc_pops = sc_last - sc_begin + 1
            /\ [i \in 1..Len(sc_released) |-> sc_released[i].height]
                 = Descending(sc_last, sc_begin)

\* The same for begin_index > 0.
ReleasePopsDownToBeginAboveZero ==
    sc_begin > 0
      => /\ sc_empty_pops = 0
         /\ sc_pc # "fault"
         /\ sc_pc = "returned"
              => /\ sc_pops = sc_last - sc_begin + 1
                 /\ [i \in 1..Len(sc_released) |-> sc_released[i].height]
                      = Descending(sc_last, sc_begin)
                 /\ last_height(sc_blocks) = sc_begin - 1

\* release terminates for begin_index > 0.
ReleaseReturnsAboveZero ==
    (sc_pc = "loop" /\ sc_begin > 0) ~> (sc_pc = "returned")

\* release terminates for every begin_index: it does not for 0.
ReleaseReturns == (sc_pc = "loop") ~> (sc_pc = "returned")

\* The case of C32's failure: release(0, released) on a chain of three
\* blocks has popped them all, height has wrapped, and pop is called with
\* no block left.
C32_PopOnEmptyChain ==
    /\ sc_begin = 0
    /\ sc_last = 2
    /\ sc_pops = 4
    /\ sc_empty_pops = 1
    /\ sc_height = decrement(null_height)
    /\ sc_blocks.recs = <<>>
    /\ [i \in 1..3 |-> sc_released[i].height] = <<2, 1, 0>>

(***************************************************************************)
(* Further properties of db_interface                                      *)
(***************************************************************************)

\* Every entry the hash table held before is handed out after, the same.
KeepsEntries(before, after) ==
    \A i \in 1..Len(before) :
        table_get(after, before[i].key) = table_get(before, before[i].key)

\* Every list of the history holds after the rows it held before.
KeepsRows(before, after) ==
    \A a \in Addresses :
        /\ Len(after[a]) >= Len(before[a])
        /\ SubSeq(after[a], 1, Len(before[a])) = before[a]

\* pop has removed nothing that was stored before the push it undoes, and
\* its assertions on the result of transactions.get held.
RemovedOnlyPushed ==
    /\ KeepsEntries(popped.of.before.transactions, popped.after.transactions)
    /\ KeepsEntries(popped.of.before.spends, popped.after.spends)
    /\ KeepsRows(popped.of.before.history, popped.after.history)
    /\ ~popped.null_read
    /\ ~popped.assert_failed

\* C33: pop removes only records that the matching push added, at every
\* height, 91842 and 91880 included where push skips the transaction of
\* index 0: no transaction record, spend or history row of an earlier
\* block is removed, and the assertions of pop on the height and index of
\* the fetched transaction hold.
C33_PopRemovesOnlyPushed == popped.found => RemovedOnlyPushed

\* The same away from the special heights, and at them for a block
\* without transactions.
RemovesOnlyPushedAwayFromSpecialHeights ==
    (/\ popped.found
     /\ \/ popped.height \notin {special_height_1, special_height_2}
        \/ popped.of.block.transactions = <<>>)
        => RemovedOnlyPushed

\* The case of C33's failure: the block pushed at special_height_1 starts
\* with the coinbase an earlier block stored; pop has found the record of
\* the earlier block, its assertion on the height has failed, and the
\* record and the history row of its output are gone.
C33_EarlierRecordRemoved ==
    /\ popped.found
    /\ popped.height = special_height_1
    /\ popped.of.block.transactions # <<>>
    /\ popped.of.block.transactions[1] = coinbase_tx
    /\ table_get(popped.of.before.transactions, tx_hash(coinbase_tx)).found
    /\ ~table_get(popped.after.transactions, tx_hash(coinbase_tx)).found
    /\ popped.assert_failed
    /\ ~popped.null_read
    /\ popped.of.before.history["a1"] = <<earlier_row>>
    /\ popped.after.history["a1"] = <<>>

(***************************************************************************)
(* transaction_pool: the memory pool of unconfirmed transactions           *)
(*   src/src/transaction_pool.cpp                                          *)
(*                                                                         *)
(* buffer_ is a boost::circular_buffer of entries {hash, tx,               *)
(* handle_confirm}.  A transaction is its hash and its inputs; an input is *)
(* its previous_output {hash, index}.  A confirm handler is written as the *)
(* number of the store or validate call that brought it.  Error codes are  *)
(* written as their names.                                                 *)
(***************************************************************************)

\* Bounds on the runs explored.
MaxPoolStores == 3

MaxPoolQueries == 1

MaxPoolReorgs == 1

MaxPoolDeletes == 1

\* Calls waiting on the strand of dispatch_.ordered.
MaxQueued == 2

\* The capacity the pool of the runs is constructed with.
PoolCapacity == 2

point(hash, index) == [hash |-> hash, index |-> index]

\* Transactions: tx_1 spends a confirmed output, tx_2 spends an output of
\* tx_1, tx_3 a confirmed output and an output of tx_2, tx_4 a confirmed
\* output no other spends; tx_5 spends the confirmed output that tx_1
\* spends.
tx_1 == [hash |-> 1, inputs |-> <<point(0, 0)>>]

tx_2 == [hash |-> 2, inputs |-> <<point(1, 0)>>]

tx_3 == [hash |-> 3, inputs |-> <<point(0, 2), point(2, 0)>>]

tx_4 == [hash |-> 4, inputs |-> <<point(0, 1)>>]

tx_5 == [hash |-> 5, inputs |-> <<point(0, 0)>>]

PoolTxs == {tx_1, tx_2, tx_3, tx_4}

TxHashes == 0..5

\* The lists of blocks a reorganize notification carries.
BlockLists ==
    { <<[transactions |-> <<tx_5>>]>>,
      <<[transactions |-> <<tx_4>>], [transactions |-> <<tx_2, tx_5>>]>> }

\* The codes validate_transaction completes a validation with.
ValidationCodes == {"success", "input_not_found", "coinbase_transaction"}

\* The pool a call works on, and the calls of confirm handlers it makes.
Pool ==
    [ stopped |-> stopped_, buffer |-> buffer_, capacity |-> pl_capacity,
      confirms |-> <<>> ]

\* entry.handle_confirm(ec)
handle_confirm(p, e, ec) ==
    [p EXCEPT !.confirms = Append(@, [handler |-> e.handle_confirm, ec |-> ec])]

\* transaction_pool::find: the place of the first entry of the hash, 0 for
\* buffer_.end().
find(buffer, hash) ==
    IF \E i \in 1..Len(buffer) : buffer[i].hash = hash
    THEN CHOOSE i \in 1..Len(buffer) :
           /\ buffer[i].hash = hash
           /\ \A j \in 1..(i - 1) : buffer[j].hash # hash
    ELSE 0

is_in_pool(buffer, hash) == find(buffer, hash) # 0

\* delete_single: what it returns.
delete_single_found(p, hash) ==
    /\ ~p.stopped
    /\ find(p.buffer, hash) # 0

\* Mutant of delete_single: the entry is erased without a call of its
\* handler.
delete_single_silent(p, hash, ec) ==
    IF ~delete_single_found(p, hash) THEN p
    ELSE [p EXCEPT !.buffer = RemoveAt(@, find(p.buffer, hash))]

\* delete_single: the pool after it.
delete_single(p, hash, ec) ==
    IF ~delete_single_found(p, hash) THEN p
    ELSE LET it == find(p.buffer, hash)
         IN [handle_confirm(p, p.buffer[it], ec) EXCEPT
                !.buffer = RemoveAt(@, it)]

\* The comparisons delete_dependencies is called with: by output point and
\* by hash.
by_point(output_point) ==
    [index |-> output_point.index, hash |-> output_point.hash, both |-> TRUE]

by_hash(hash) == [index |-> 0, hash |-> hash, both |-> FALSE]

is_dependency(comparison, input) ==
    /\ input.hash = comparison.hash
    /\ comparison.both => input.index = comparison.index

\* The first loop of delete_dependencies: the hashes of the entries with an
\* input that is a dependency, in the order of the buffer.
RECURSIVE dependencies(_, _)
dependencies(buffer, comparison) ==
    IF buffer = <<>> THEN <<>>
    ELSE (IF \E i \in 1..Len(Head(buffer).tx.inputs) :
                 is_dependency(comparison, Head(buffer).tx.inputs[i])
          THEN <<Head(buffer).tx.hash>> ELSE <<>>)
           \o dependencies(Tail(buffer), comparison)

RECURSIVE delete_package(_, _, _)
RECURSIVE delete_packages(_, _, _)

\* Mutant of delete_dependencies: the entries found are deleted alone.
delete_dependencies_single(p, comparison, ec) ==
    LET RECURSIVE singles(_, _)
        singles(q, hashes) ==
            IF hashes = <<>> THEN q
            ELSE singles(delete_single(q, Head(hashes), ec), Tail(hashes))
    IN singles(p, dependencies(p.buffer, comparison))

\* delete_dependencies(is_dependency, ec)
delete_dependencies(p, comparison, ec) ==
    delete_packages(p, dependencies(p.buffer, comparison), ec)

\* The second loop of delete_dependencies.
delete_packages(p, hashes, ec) ==
    IF hashes = <<>> THEN p
    ELSE delete_packages(delete_package(p, Head(hashes), ec), Tail(hashes), ec)

\* delete_package(hash, ec)
delete_package(p, hash, ec) ==
    IF delete_single_found(p, hash)
    THEN delete_dependencies(delete_single(p, hash, ec), by_hash(hash),
                             ec)
    ELSE p

\* delete_package(ec): the oldest entry and what depends on it.
delete_package_oldest(p, ec) ==
    IF p.stopped \/ p.buffer = <<>> THEN p
    ELSE LET oldest == p.buffer[1]
         IN delete_package(handle_confirm(p, oldest, ec), oldest.hash, ec)

\* boost::circular_buffer::push_back: a full buffer loses its first
\* element, a buffer of capacity 0 takes nothing.
push_back(buffer, capacity, e) ==
    IF Len(buffer) < capacity THEN Append(buffer, e)
    ELSE IF capacity = 0 THEN buffer
    ELSE Append(Tail(buffer), e)

\* Mutant of add: no entry is dropped to make room.
add_to_full(p, tx, handler) ==
    [p EXCEPT !.buffer = push_back(@, p.capacity,
        [hash |-> tx.hash, tx |-> tx, handle_confirm |-> handler])]

\* transaction_pool::add
add(p, tx, handler) ==
    LET room == IF Len(p.buffer) = p.capacity
                THEN delete_package_oldest(p, "pool_filled")
                ELSE p
    IN [room EXCEPT !.buffer = push_back(@, p.capacity,
           [hash |-> tx.hash, tx |-> tx, handle_confirm |-> handler])]

\* Mutant of delete_all: the buffer is cleared without a call of a handler.
delete_all_silent(p, ec) == [p EXCEPT !.buffer = <<>>]

\* delete_all
delete_all(p, ec) ==
    [p EXCEPT !.confirms = @ \o [i \in 1..Len(p.buffer) |->
                 [handler |-> p.buffer[i].handle_confirm, ec |-> ec]],
              !.buffer = <<>>]

\* The transactions of the blocks, and the inputs of transactions, in the
\* order the loops take them.
RECURSIVE transactions_of(_)
transactions_of(blocks) ==
    IF blocks = <<>> THEN <<>>
    ELSE Head(blocks).transactions \o transactions_of(Tail(blocks))

RECURSIVE inputs_of(_)
inputs_of(txs) ==
    IF txs = <<>> THEN <<>> ELSE Head(txs).inputs \o inputs_of(Tail(txs))

RECURSIVE delete_singles(_, _, _)
delete_singles(p, txs, ec) ==
    IF txs = <<>> THEN p
    ELSE delete_singles(delete_single(p, Head(txs).hash, ec), Tail(txs), ec)

delete_confirmed_in_blocks(p, blocks) ==
    IF p.stopped \/ p.buffer = <<>> THEN p
    ELSE delete_singles(p, transactions_of(blocks), "success")

RECURSIVE delete_spenders(_, _, _)
delete_spenders(p, inputs, ec) ==
    IF inputs = <<>> THEN p
    ELSE delete_spenders(delete_dependencies(p, by_point(Head(inputs)), ec),
                         Tail(inputs), ec)

delete_spent_in_blocks(p, blocks) ==
    IF p.stopped \/ p.buffer = <<>> THEN p
    ELSE delete_spenders(p, inputs_of(transactions_of(blocks)), "double_spend")

delete_superseded(p, blocks) ==
    delete_spent_in_blocks(delete_confirmed_in_blocks(p, blocks), blocks)

\* transaction_pool::validation_complete: the code it hands to handler.
validation_complete(stopped, buffer, ec, hash) ==
    IF stopped THEN "service_stopped"
    ELSE IF ec = "input_not_found" \/ ec = "validate_inputs_failed" THEN ec
    ELSE IF ec # "success" THEN ec
    ELSE IF is_in_pool(buffer, hash) THEN "duplicate"
    ELSE "success"

\* wrap_validate of store: the pool after it ...
wrap_validate(p, tx, handler, ec) ==
    IF ec = "success" THEN add(p, tx, handler) ELSE p

\* ... and the code it hands to handle_validate.
wrap_validate_code(ec) == "success"

\* A call queued with dispatch_.ordered, or a validation under way.  wrap
\* tells the validate handler of store from that of validate.
Job(op, tx, handler, wrap, blocks, ec) ==
    [op |-> op, tx |-> tx, handler |-> handler, wrap |-> wrap,
     blocks |-> blocks, ec |-> ec]

NoTx == [hash |-> 0, inputs |-> <<>>]

\* What pl_last holds after a call of a handler given outside the pool with
\* the code ec, after delete_package and after a reorganize notification.
Did(op, ec) ==
    [op |-> op, ec |-> ec, handler |-> 0, hash |-> 0,
     validated |-> "none", new_blocks |-> <<>>, replaced_blocks |-> <<>>]

\* The calls of confirm handlers a call of the pool has made, added to
\* those made before.
RECURSIVE Confirmed(_, _)
Confirmed(confirms, calls) ==
    IF calls = <<>> THEN confirms
    ELSE Confirmed([confirms EXCEPT ![Head(calls).handler] =
                       Append(@, Head(calls).ec)],
                   Tail(calls))

\* The pool after a call is the pool p.
Becomes(p) ==
    /\ buffer_' = p.buffer
    /\ pl_confirms' = Confirmed(pl_confirms, p.confirms)

\* The validate handler of the call numbered job.handler is called with
\* ec: that of validate gets the code, that of store is wrap_validate.
CallValidateHandler(job, ec) ==
    LET p == IF job.wrap THEN wrap_validate(Pool, job.tx, job.handler, ec)
             ELSE Pool
    IN /\ Becomes(p)
       /\ pl_validated' = [pl_validated EXCEPT ![job.handler] =
              IF job.wrap THEN wrap_validate_code(ec) ELSE ec]
       /\ pl_last' = [Did(IF job.wrap THEN "wrap_validate" ELSE "handle_validate",
                          IF job.wrap THEN wrap_validate_code(ec) ELSE ec)
                        EXCEPT !.handler = job.handler,
                               !.hash = job.tx.hash,
                               !.validated = ec]

\* No store or validate is under way.
NoneUnderWay ==
    /\ pl_validating = {}
    /\ \A i \in 1..Len(pl_ordered) : pl_ordered[i].op # "do_validate"

\* transaction_pool::start
PoolStart ==
    /\ ~pl_destroyed
    /\ ~pl_started
    /\ pl_subscribed' = pl_subscribed + 1
    /\ pl_started' = TRUE
    /\ UNCHANGED <<pl_last, stopped_, buffer_, pl_capacity, pl_ordered, pl_validating,
                   pl_confirms, pl_validated, pl_halts, pl_destroyed,
                   pl_stores, pl_queries, pl_reorgs, pl_deletes>>
    /\ UNCHANGED not_pool_vars

\* transaction_pool::stop
PoolStop ==
    /\ ~pl_destroyed
    /\ pl_started
    /\ pl_halts = 0
    /\ stopped_' = TRUE
    /\ pl_halts' = pl_halts + 1
    /\ UNCHANGED <<pl_last, buffer_, pl_capacity, pl_subscribed, pl_ordered,
                   pl_validating, pl_confirms, pl_validated, pl_started,
                   pl_destroyed, pl_stores, pl_queries, pl_reorgs, pl_deletes>>
    /\ UNCHANGED not_pool_vars

\* transaction_pool::store
PoolStore(tx) ==
    /\ ~pl_destroyed
    /\ pl_stores < MaxPoolStores
    /\ NoneUnderWay
    /\ Len(pl_ordered) < MaxQueued
    /\ pl_stores' = pl_stores + 1
    /\ IF stopped_
       THEN /\ pl_validated' = [pl_validated EXCEPT ![pl_stores'] =
                                   "service_stopped"]
            /\ UNCHANGED pl_ordered
       ELSE /\ pl_ordered' = Append(pl_ordered,
                   Job("do_validate", tx, pl_stores', TRUE, <<>>, "success"))
            /\ UNCHANGED pl_validated
    /\ pl_last' = IF stopped_
                  THEN [Did("store", "service_stopped")
                          EXCEPT !.handler = pl_stores', !.hash = tx.hash]
                  ELSE pl_last
    /\ UNCHANGED <<stopped_, buffer_, pl_capacity, pl_subscribed,
                   pl_validating, pl_confirms, pl_started, pl_halts,
                   pl_destroyed, pl_queries, pl_reorgs, pl_deletes>>
    /\ UNCHANGED not_pool_vars

\* transaction_pool::validate
PoolValidate(tx) ==
    /\ ~pl_destroyed
    /\ pl_queries < MaxPoolQueries
    /\ NoneUnderWay
    /\ Len(pl_ordered) < MaxQueued
    /\ pl_queries' = pl_queries + 1
    /\ pl_ordered' = Append(pl_ordered,
           Job("do_validate", tx, 0, FALSE, <<>>, "success"))
    /\ UNCHANGED <<pl_last, stopped_, buffer_, pl_capacity, pl_subscribed,
                   pl_validating, pl_confirms, pl_validated, pl_started,
                   pl_halts, pl_destroyed, pl_stores, pl_reorgs, pl_deletes>>
    /\ UNCHANGED not_pool_vars

\* transaction_pool::fetch and transaction_pool::exists
PoolQuery(op, hash) ==
    /\ ~pl_destroyed
    /\ pl_queries < MaxPoolQueries
    /\ Len(pl_ordered) < MaxQueued
    /\ pl_queries' = pl_queries + 1
    /\ IF stopped_
       THEN /\ pl_last' = [Did(op, "service_stopped") EXCEPT !.hash = hash]
            /\ UNCHANGED pl_ordered
       ELSE /\ UNCHANGED pl_last
            /\ pl_ordered' = Append(pl_ordered,
                   Job(op, [NoTx EXCEPT !.hash = hash], 0, FALSE, <<>>,
                       "success"))
    /\ UNCHANGED <<stopped_, buffer_, pl_capacity, pl_subscribed,
                   pl_validating, pl_confirms, pl_validated, pl_started,
                   pl_halts, pl_destroyed, pl_stores, pl_reorgs, pl_deletes>>
    /\ UNCHANGED not_pool_vars

\* The strand of dispatch_.ordered runs the call queued first: do_validate,
\* delete_superseded, delete_all, tx_fetcher or get_existence.
PoolDispatch ==
    /\ ~pl_destroyed
    /\ pl_ordered # <<>>
    /\ pl_ordered' = Tail(pl_ordered)
    /\ LET job == Head(pl_ordered) IN
        CASE job.op = "do_validate" ->
               IF stopped_
               THEN /\ CallValidateHandler(job, "service_stopped")
                    /\ UNCHANGED pl_validating
               ELSE /\ pl_validating' = pl_validating \cup {job}
                    /\ UNCHANGED <<buffer_, pl_confirms, pl_validated,
                                   pl_last>>
          [] job.op = "delete_superseded" ->
               LET p == delete_superseded(Pool, job.blocks) IN
               /\ Becomes(p)
               /\ UNCHANGED <<pl_validating, pl_validated, pl_last>>
          [] job.op = "delete_all" ->
               LET p == delete_all(Pool, job.ec) IN
               /\ Becomes(p)
               /\ UNCHANGED <<pl_validating, pl_validated, pl_last>>
          [] OTHER ->
               /\ pl_last' = [Did(job.op,
                                  IF is_in_pool(buffer_, job.tx.hash)
                                  THEN "success" ELSE "not_found")
                                EXCEPT !.hash = job.tx.hash]
               /\ UNCHANGED <<buffer_, pl_confirms, pl_validating,
                              pl_validated>>
    /\ UNCHANGED <<stopped_, pl_capacity, pl_subscribed, pl_started, pl_halts,
                   pl_destroyed, pl_stores, pl_queries, pl_reorgs, pl_deletes>>
    /\ UNCHANGED not_pool_vars

\* validate_transaction completes with the code ec and the delegate runs
\* transaction_pool::validation_complete.
PoolValidationComplete(job, ec) ==
    /\ ~pl_destroyed
    /\ job \in pl_validating
    /\ pl_validating' = pl_validating \ {job}
    /\ CallValidateHandler(job,
           validation_complete(stopped_, buffer_, ec, job.tx.hash))
    /\ UNCHANGED <<stopped_, pl_capacity, pl_subscribed, pl_ordered,
                   pl_started, pl_halts, pl_destroyed, pl_stores, pl_queries,
                   pl_reorgs, pl_deletes>>
    /\ UNCHANGED not_pool_vars

\* Mutant of the resubscription of reorganize: none.
resubscribe_never(ec) == 0

\* transaction_pool::reorganize: the handlers it subscribes when it ends.
resubscribe(ec) == IF ec # "success" THEN 0 ELSE 1

\* The blockchain notifies the handler subscribed, which is used up by the
\* notification, and transaction_pool::reorganize runs.
PoolReorganize(ec, new_blocks, replaced_blocks) ==
    /\ ~pl_destroyed
    /\ pl_subscribed > 0
    /\ pl_reorgs < MaxPoolReorgs
    /\ Len(pl_ordered) < MaxQueued
    /\ (replaced_blocks # <<>> \/ ec # "success") = (new_blocks = <<>>)
    /\ ec # "success" => replaced_blocks = <<>>
    /\ pl_reorgs' = pl_reorgs + 1
    /\ pl_subscribed' = pl_subscribed - 1 + resubscribe(ec)
    /\ IF ec # "success"
       THEN /\ stopped_' = TRUE
            /\ pl_halts' = pl_halts + 1
            /\ UNCHANGED pl_ordered
       ELSE /\ pl_ordered' = Append(pl_ordered,
                   IF replaced_blocks = <<>>
                   THEN Job("delete_superseded", NoTx, 0, FALSE, new_blocks,
                            "success")
                   ELSE Job("delete_all", NoTx, 0, FALSE, <<>>,
                            "blockchain_reorganized"))
            /\ UNCHANGED <<stopped_, pl_halts>>
    /\ pl_last' = [Did("reorganize", ec) EXCEPT
                      !.new_blocks = new_blocks,
                      !.replaced_blocks = replaced_blocks]
    /\ UNCHANGED <<buffer_, pl_capacity, pl_validating, pl_confirms,
                   pl_validated, pl_started, pl_destroyed, pl_stores,
                   pl_queries, pl_deletes>>
    /\ UNCHANGED not_pool_vars

\* delete_package(tx, ec), called from outside the pool.
PoolDeletePackage(tx, ec) ==
    /\ ~pl_destroyed
    /\ pl_deletes < MaxPoolDeletes
    /\ pl_deletes' = pl_deletes + 1
    /\ LET p == delete_package(Pool, tx.hash, ec) IN
        /\ Becomes(p)
        /\ pl_last' = [Did("delete_package", ec) EXCEPT !.hash = tx.hash]
    /\ UNCHANGED <<stopped_, pl_capacity, pl_subscribed, pl_ordered,
                   pl_validating, pl_validated, pl_started, pl_halts,
                   pl_destroyed, pl_stores, pl_queries, pl_reorgs>>
    /\ UNCHANGED not_pool_vars

\* transaction_pool::~transaction_pool
PoolDestroy ==
    /\ ~pl_destroyed
    /\ pl_destroyed' = TRUE
    /\ LET p == delete_all(Pool, "service_stopped") IN
        /\ Becomes(p)
    /\ UNCHANGED <<pl_last, stopped_, pl_capacity, pl_subscribed, pl_ordered,
                   pl_validating, pl_validated, pl_started, pl_halts,
                   pl_stores, pl_queries, pl_reorgs, pl_deletes>>
    /\ UNCHANGED not_pool_vars

\* The pool as its constructor leaves it.
PoolConstructed(capacity) ==
    /\ stopped_ = TRUE
    /\ buffer_ = <<>>
    /\ pl_capacity = capacity
    /\ pl_subscribed = 0
    /\ pl_ordered = <<>>
    /\ pl_validating = {}
    /\ pl_confirms = [handler \in 1..MaxPoolStores |-> <<>>]
    /\ pl_validated = [handler \in 0..MaxPoolStores |-> "none"]
    /\ pl_last = Did("construct", "success")
    /\ pl_started = FALSE
    /\ pl_halts = 0
    /\ pl_destroyed = FALSE
    /\ pl_stores = 0
    /\ pl_queries = 0
    /\ pl_reorgs = 0
    /\ pl_deletes = 0

InitPool == PoolConstructed(PoolCapacity)

\* A pool that is not stopped: constructed and started, with stopped_
\* false.  No statement of transaction_pool.cpp clears stopped_ (see C37);
\* stopped_ is a member that a class derived from the pool can write.
PoolRunning(capacity) ==
    /\ stopped_ = FALSE
    /\ buffer_ = <<>>
    /\ pl_capacity = capacity
    /\ pl_subscribed = 1
    /\ pl_ordered = <<>>
    /\ pl_validating = {}
    /\ pl_confirms = [handler \in 1..MaxPoolStores |-> <<>>]
    /\ pl_validated = [handler \in 0..MaxPoolStores |-> "none"]
    /\ pl_last = Did("construct", "success")
    /\ pl_started = TRUE
    /\ pl_halts = 0
    /\ pl_destroyed = FALSE
    /\ pl_stores = 0
    /\ pl_queries = 0
    /\ pl_reorgs = 0
    /\ pl_deletes = 0

InitPoolRunning ==
    \E capacity \in {0, PoolCapacity, PoolCapacity + 1} : PoolRunning(capacity)

\* The transactions validate is called with and the hashes asked for.
ValidateTxs == {tx_1}

QueryHashes == {tx_1.hash}

ReorganizeCodes == {"success", "service_stopped", "operation_failed"}

ReplacedLists == {<<>>, <<[transactions |-> <<tx_4>>]>>}

DeleteCodes == {"double_spend", "blockchain_reorganized"}

\* The calls made on a pool, the pool's strand, and the notifications.
NextPoolCalls ==
    \/ PoolStop
    \/ \E tx \in PoolTxs : PoolStore(tx)
    \/ PoolDispatch
    \/ \E ec \in ReorganizeCodes : \E new_blocks \in BlockLists \cup {<<>>} :
           \E replaced_blocks \in ReplacedLists :
               PoolReorganize(ec, new_blocks, replaced_blocks)
    \/ \E tx \in PoolTxs : \E ec \in DeleteCodes : PoolDeletePackage(tx, ec)
    \/ PoolDestroy

\* A pool from its constructor on.
NextPool ==
    \/ PoolStart
    \/ \E tx \in ValidateTxs : PoolValidate(tx)
    \/ \E op \in {"fetch", "exists"} : \E hash \in QueryHashes :
           PoolQuery(op, hash)
    \/ NextPoolCalls

\* A pool that is not stopped, with the validations that complete.
NextPoolRunning ==
    \/ NextPoolCalls
    \/ \E job \in pl_validating : \E ec \in ValidationCodes :
           PoolValidationComplete(job, ec)

(***************************************************************************)
(* Properties of transaction_pool                                          *)
(***************************************************************************)

\* The step is a call of wrap_validate with success: add(tx, handle_confirm)
\* runs in it.
AddStep ==
    /\ pl_validating' # pl_validating
    /\ pl_validating' \subseteq pl_validating
    /\ pl_last'.op = "wrap_validate"
    /\ pl_last'.validated = "success"

\* The confirm handler was called in the step, with ec each time.
NotifiedWith(handler, ec) ==
    /\ Len(pl_confirms'[handler]) > Len(pl_confirms[handler])
    /\ \A i \in (Len(pl_confirms[handler]) + 1)..Len(pl_confirms'[handler]) :
           pl_confirms'[handler][i] = ec

\* The entry is in the buffer after the step.
Kept(e) == \E i \in 1..Len(buffer_') : buffer_'[i] = e

Spends(e, hash) == \E i \in 1..Len(e.tx.inputs) : e.tx.inputs[i].hash = hash

\* add on a full pool has dropped the oldest entry and the entries that
\* spend its outputs, and has called their handlers with pool_filled.
OldestDropped ==
    (Len(buffer_) = pl_capacity /\ buffer_ # <<>>)
        => \A i \in 1..Len(buffer_) :
              (i = 1 \/ Spends(buffer_[i], buffer_[1].hash))
                  => /\ ~Kept(buffer_[i])
                     /\ NotifiedWith(buffer_[i].handle_confirm, "pool_filled")

\* The entry of the call is the newest of the buffer after add.
NewEntryPresent ==
    /\ buffer_' # <<>>
    /\ buffer_'[Len(buffer_')].handle_confirm = pl_last'.handler
    /\ buffer_'[Len(buffer_')].hash = pl_last'.hash

\* C34 as stated: the pool never holds more entries than its capacity;
\* add on a full pool that is not stopped drops the oldest entry and the
\* entries that spend its outputs, notified with pool_filled, before it
\* appends the new entry; and the new entry is always present after add.
C34_Original_NewEntryAlwaysPresent ==
    /\ [](Len(buffer_) <= pl_capacity)
    /\ [][AddStep => OldestDropped /\ NewEntryPresent]_vars

\* C34, amended: the same for a pool of capacity 1 or more.  A pool of
\* capacity 0 is full and empty at once: add drops nothing and push_back
\* stores nothing.
C34_NewEntryPresentInPoolOfCapacity ==
    /\ [](Len(buffer_) <= pl_capacity)
    /\ [][AddStep => /\ OldestDropped
                     /\ pl_capacity > 0 => NewEntryPresent]_vars

\* C34 witness: tx_1 and tx_2, which spends an output of tx_1, filled a pool
\* of capacity 2; the add of tx_3 has dropped both with pool_filled and
\* tx_3, which spends an output of tx_2, is the one entry of the pool.
C34_Witness ==
    /\ pl_capacity = 2
    /\ ~stopped_
    /\ pl_stores = 3
    /\ buffer_ = <<[hash |-> 3, tx |-> tx_3, handle_confirm |-> 3]>>
    /\ pl_last.op = "wrap_validate"
    /\ pl_last.handler = 3
    /\ pl_confirms[1] # <<>>
    /\ pl_confirms[2] = <<"pool_filled">>
    /\ pl_confirms[3] = <<>>

\* The case of the failure of C34 as stated: store on a pool of capacity 0
\* that is not stopped, validation with success; add has run and the pool
\* holds no entry.
C34_NothingStored ==
    /\ pl_capacity = 0
    /\ pl_last.op = "wrap_validate"
    /\ pl_last.validated = "success"
    /\ buffer_ = <<>>
    /\ pl_confirms[pl_last.handler] = <<>>

\* Every entry that leaves the buffer in the step has had its confirm
\* handler called.
RemovedAreNotified ==
    \A i \in 1..Len(buffer_) :
        ~Kept(buffer_[i]) => pl_confirms'[buffer_[i].handle_confirm] # <<>>

\* C35: the confirm handler of each transaction stored is called at most
\* once over the life of the pool, whatever the sequence of add, eviction
\* of the oldest entry, delete_single, delete_package, delete_superseded,
\* delete_all and destruction; and no entry leaves the buffer without a
\* call of its confirm handler.
C35_ConfirmedAtMostOnce ==
    /\ [](\A handler \in 1..MaxPoolStores : Len(pl_confirms[handler]) <= 1)
    /\ [][RemovedAreNotified]_vars

\* What holds of the code: no entry leaves the buffer without a call of
\* its handler, a handler is called at most twice, and twice only with
\* pool_filled both times: the eviction of the oldest entry by add.
ConfirmedTwiceOnlyWhenEvicted ==
    /\ [](\A handler \in 1..MaxPoolStores :
            \/ Len(pl_confirms[handler]) <= 1
            \/ pl_confirms[handler] = <<"pool_filled", "pool_filled">>)
    /\ [][RemovedAreNotified]_vars

\* The case of C35's failure: tx_4 and tx_1 filled a pool of capacity 2,
\* the add of tx_2 has evicted tx_4, the oldest, and the handler of tx_4 has
\* been called twice.
C35_OldestNotifiedTwice ==
    /\ pl_capacity = 2
    /\ pl_stores = 3
    /\ buffer_ = <<[hash |-> 1, tx |-> tx_1, handle_confirm |-> 2],
                   [hash |-> 2, tx |-> tx_2, handle_confirm |-> 3]>>
    /\ pl_confirms[1] = <<"pool_filled", "pool_filled">>
    /\ pl_confirms[2] = <<>>
    /\ pl_confirms[3] = <<>>

\* The step calls the validate handler of the store call numbered handler.
StoreAnswered(handler) ==
    /\ pl_validated[handler] = "none"
    /\ pl_validated'[handler] # "none"

\* The code the validation of the store call answered in the step has
\* completed with: service_stopped from store on a stopped pool, else the
\* code validation_complete or do_validate gives to wrap_validate.
CompletedWith ==
    IF pl_last'.op = "store" THEN pl_last'.ec ELSE pl_last'.validated

\* The transaction of the store call is in the buffer after the step.
Added(handler) ==
    \E i \in 1..Len(buffer_') : buffer_'[i].handle_confirm = handler

\* C36: in store, handle_confirm never fires if handle_validate returns a
\* failure code: the transaction is added only when validation succeeded,
\* and when validation completes with an error or the pool is stopped the
\* transaction is not added and handle_validate receives that failure code,
\* not success.
C36_ValidateHandlerReceivesFailure ==
    /\ [](\A handler \in 1..MaxPoolStores :
            pl_confirms[handler] # <<>> => pl_validated[handler] = "success")
    /\ [][\A handler \in 1..MaxPoolStores :
            StoreAnswered(handler) =>
                /\ Added(handler) => CompletedWith = "success"
                /\ CompletedWith # "success" =>
                       /\ ~Added(handler)
                       /\ pl_validated'[handler] = CompletedWith]_vars

\* What holds of the code: the transaction is added only when validation
\* succeeded, and handle_validate receives success from wrap_validate
\* whatever the validation completed with; it receives service_stopped
\* only from store itself.
ValidateHandlerReceivesSuccess ==
    /\ [](\A handler \in 1..MaxPoolStores :
            pl_confirms[handler] # <<>> => pl_validated[handler] = "success")
    /\ [][\A handler \in 1..MaxPoolStores :
            StoreAnswered(handler) =>
                /\ Added(handler) => CompletedWith = "success"
                /\ CompletedWith # "success" => ~Added(handler)
                /\ pl_validated'[handler] =
                       IF pl_last'.op = "store" THEN "service_stopped"
                       ELSE "success"]_vars

\* The case of C36's failure: the validation of a stored transaction has
\* completed with input_not_found, the transaction is not in the pool and
\* handle_validate has received success.
C36_FailureAnsweredWithSuccess ==
    /\ pl_last.op = "wrap_validate"
    /\ pl_last.validated = "input_not_found"
    /\ pl_last.handler = 1
    /\ pl_validated[1] = "success"
    /\ buffer_ = <<>>
    /\ ~stopped_

\* The same for a pool stopped after store and before the validation
\* completed.
C36_StoppedAnsweredWithSuccess ==
    /\ pl_last.op = "wrap_validate"
    /\ pl_last.validated = "service_stopped"
    /\ pl_validated[pl_last.handler] = "success"
    /\ stopped_

\* start() has returned, and neither stop() nor a reorganize notification
\* with an error has come since.
StartedNotHalted == pl_started /\ pl_halts = 0

\* C37: after start() returns and until stop() or a reorganize notification
\* that carries an error, stopped() is false, so store, fetch, exists and
\* validate do not answer service_stopped and the delete operations act on
\* the buffer.
C37_NotStoppedAfterStart ==
    /\ [](StartedNotHalted => ~stopped_)
    /\ [][(/\ StartedNotHalted
            /\ pl_last' # pl_last
            /\ pl_last'.op \in {"store", "fetch", "exists", "handle_validate"})
            => pl_last'.ec # "service_stopped"]_vars

\* What holds of the code: a pool is stopped from its constructor on,
\* whether started or not, and its buffer stays empty.
StoppedFromConstruction == stopped_ /\ buffer_ = <<>>

\* The case of C37's failure: start() has returned, nothing has stopped the
\* pool, and store has answered service_stopped.
C37_StoreAnsweredStopped ==
    /\ StartedNotHalted
    /\ ~pl_destroyed
    /\ stopped_
    /\ pl_last.op = "store"
    /\ pl_last.ec = "service_stopped"
    /\ pl_validated[pl_last.handler] = "service_stopped"

\* The same for validate, answered by do_validate on the pool's strand.
C37_ValidateAnsweredStopped ==
    /\ StartedNotHalted
    /\ pl_last.op = "handle_validate"
    /\ pl_last.ec = "service_stopped"

\* The hashes of the entries of the buffer that depend on one of hashes:
\* those with an input whose previous_output.hash is one of them, and so on.
RECURSIVE Dependants(_, _)
Dependants(buffer, hashes) ==
    LET more == hashes \cup
            { buffer[i].hash : i \in
                { j \in 1..Len(buffer) :
                    \E h \in hashes : Spends(buffer[j], h) } }
    IN IF more = hashes THEN hashes ELSE Dependants(buffer, more)

\* The buffer without the entries of the hashes, the others in their order.
Without(buffer, hashes) ==
    SelectSeq(buffer, LAMBDA e : e.hash \notin hashes)

\* The step is a call of delete_package(tx, ec) on a pool that is not
\* stopped and holds the transaction.
DeletePackageStep ==
    /\ pl_deletes' # pl_deletes
    /\ ~stopped_
    /\ is_in_pool(buffer_, pl_last'.hash)

\* The entries of the hashes, and no other, have left the buffer, the
\* handler of each called once with ec and no other handler called.
RemovedWith(hashes, ec) ==
    /\ buffer_' = Without(buffer_, hashes)
    /\ \A i \in 1..Len(buffer_) :
          pl_confirms'[buffer_[i].handle_confirm] =
              IF buffer_[i].hash \in hashes
              THEN Append(pl_confirms[buffer_[i].handle_confirm], ec)
              ELSE pl_confirms[buffer_[i].handle_confirm]

\* C38: on a pool that is not stopped, after delete_package(tx_hash, ec)
\* has removed the transaction of the hash, no entry of the pool has an
\* input whose previous_output.hash is the hash of a transaction the call
\* removed: dependants are removed transitively, each with the code ec,
\* and the entries that do not depend on the transaction, directly or
\* transitively, stay in the pool in their order.
C38_DependantsRemovedTransitively ==
    [][DeletePackageStep =>
        /\ RemovedWith(Dependants(buffer_, {pl_last'.hash}), pl_last'.ec)
        /\ \A i \in 1..Len(buffer_) : \A j \in 1..Len(buffer_') :
              ~Kept(buffer_[i]) => ~Spends(buffer_'[j], buffer_[i].hash)]_vars

\* C38 witness: a pool of capacity 3 held tx_1, tx_2, which spends an
\* output of tx_1, and tx_3, which spends an output of tx_2 and none of
\* tx_1; delete_package(tx_1, double_spend) has removed the three and
\* called the handler of each once with double_spend.
C38_Witness ==
    /\ pl_capacity = 3
    /\ ~stopped_
    /\ pl_last.op = "delete_package"
    /\ pl_last.hash = 1
    /\ pl_stores = 3
    /\ buffer_ = <<>>
    /\ \A handler \in 1..3 : pl_confirms[handler] = <<"double_spend">>

\* The same with an entry that stays: tx_4, stored between tx_2 and tx_3,
\* is left in the pool by delete_package(tx_2, double_spend), which has
\* removed tx_2 and tx_3.
C38_IndependentStays ==
    /\ pl_capacity = 3
    /\ ~stopped_
    /\ pl_last.op = "delete_package"
    /\ pl_last.hash = 2
    /\ buffer_ = <<[hash |-> 4, tx |-> tx_4, handle_confirm |-> 2]>>
    /\ pl_confirms[1] = <<"double_spend">>
    /\ pl_confirms[2] = <<>>
    /\ pl_confirms[3] = <<"double_spend">>

\* The step is a reorganize notification; pl_last' holds its arguments.
ReorganizeStep == pl_reorgs' # pl_reorgs

\* The step runs the call queued first on the strand, of the operation op.
DispatchStep(op) ==
    /\ pl_ordered # <<>>
    /\ pl_ordered' = Tail(pl_ordered)
    /\ Head(pl_ordered).op = op

\* reorganize with an error: the pool is stopped, nothing is queued, and
\* the subscription used by the notification is not renewed.  With success
\* one call is queued, delete_all(blockchain_reorganized) for replaced
\* blocks, else delete_superseded(new_blocks), and the pool has subscribed
\* once again.
ReorganizeHandled ==
    IF pl_last'.ec # "success"
    THEN /\ stopped_'
         /\ pl_ordered' = pl_ordered
         /\ pl_subscribed' = pl_subscribed - 1
    ELSE /\ stopped_' = stopped_
         /\ pl_subscribed' = pl_subscribed
         /\ Len(pl_ordered') = Len(pl_ordered) + 1
         /\ LET job == pl_ordered'[Len(pl_ordered')] IN
              IF pl_last'.replaced_blocks # <<>>
              THEN job.op = "delete_all" /\ job.ec = "blockchain_reorganized"
              ELSE job.op = "delete_superseded"
                     /\ job.blocks = pl_last'.new_blocks

\* The call of delete_all queued by reorganize runs: every entry of the
\* pool is notified with blockchain_reorganized and the pool is empty.
AllReorganized ==
    /\ buffer_' = <<>>
    /\ \A i \in 1..Len(buffer_) :
          pl_confirms'[buffer_[i].handle_confirm] =
              Append(pl_confirms[buffer_[i].handle_confirm],
                     "blockchain_reorganized")

\* The hashes of the transactions of the blocks, and the output points
\* their inputs spend.
ConfirmedIn(blocks) ==
    LET txs == transactions_of(blocks)
    IN { txs[i].hash : i \in 1..Len(txs) }

SpentIn(blocks) ==
    LET inputs == inputs_of(transactions_of(blocks))
    IN { inputs[i] : i \in 1..Len(inputs) }

\* The hashes of the entries of the buffer with an input that the blocks
\* spend.
DoubleSpentBy(buffer, blocks) ==
    { buffer[i].hash : i \in
        { j \in 1..Len(buffer) :
            \E k \in 1..Len(buffer[j].tx.inputs) :
                buffer[j].tx.inputs[k] \in SpentIn(blocks) } }

\* The entries that leave the buffer in the step are confirmed or of the
\* hashes spent; the handlers of the first are called with success, those
\* of the others with double_spend.
OnlyRemoved(blocks, spent) ==
    \A i \in 1..Len(buffer_) :
        ~Kept(buffer_[i]) =>
            IF buffer_[i].hash \in ConfirmedIn(blocks)
            THEN NotifiedWith(buffer_[i].handle_confirm, "success")
            ELSE /\ buffer_[i].hash \in spent
                 /\ NotifiedWith(buffer_[i].handle_confirm, "double_spend")

\* The entries double-spent by the blocks and their dependants, among the
\* entries that the blocks do not confirm.
SpentAndDependants(blocks) ==
    LET rest == Without(buffer_, ConfirmedIn(blocks))
    IN Dependants(rest, DoubleSpentBy(rest, blocks))

\* On a pool that is not stopped delete_superseded removes all it can.
AllSupersededRemoved(blocks) ==
    ~stopped_ =>
        buffer_' = Without(buffer_,
                       ConfirmedIn(blocks) \cup SpentAndDependants(blocks))

\* C39 as stated: reorganize with service_stopped or another error stops
\* the pool and does not resubscribe; with success and replaced blocks
\* every entry of the pool is later notified with blockchain_reorganized
\* and the pool is emptied; with success and no replaced block only the
\* entries confirmed in the new blocks, with success, and those
\* double-spent by them, with double_spend, are removed; in both cases of
\* success the pool resubscribes once.
C39_Original_OnlyConfirmedOrDoubleSpent ==
    /\ [][ReorganizeStep => ReorganizeHandled]_vars
    /\ [][DispatchStep("delete_all") => AllReorganized]_vars
    /\ [][DispatchStep("delete_superseded") =>
            OnlyRemoved(Head(pl_ordered).blocks,
                DoubleSpentBy(buffer_, Head(pl_ordered).blocks))]_vars

\* C39, amended: with success and no replaced block the entries removed are
\* those confirmed in the new blocks, with success, and those double-spent
\* by them together with the entries that depend on these, directly or
\* transitively, with double_spend.
C39_ReorganizeRemovesDependantsToo ==
    /\ [][ReorganizeStep => ReorganizeHandled]_vars
    /\ [][DispatchStep("delete_all") => AllReorganized]_vars
    /\ [][DispatchStep("delete_superseded") =>
            /\ OnlyRemoved(Head(pl_ordered).blocks,
                   SpentAndDependants(Head(pl_ordered).blocks))
            /\ AllSupersededRemoved(Head(pl_ordered).blocks)]_vars

\* C39 witness: the pool held tx_1, tx_2 and tx_3; a reorganize
\* notification with success, the new block of tx_5 and no replaced block
\* has come, the pool has subscribed again, and delete_superseded has
\* removed tx_1, double-spent by tx_5, and tx_2 and tx_3, which depend on
\* it, each with double_spend.
C39_Witness ==
    /\ pl_capacity = 3
    /\ ~stopped_
    /\ pl_last.op = "reorganize"
    /\ pl_last.ec = "success"
    /\ pl_last.new_blocks = <<[transactions |-> <<tx_5>>]>>
    /\ pl_last.replaced_blocks = <<>>
    /\ pl_subscribed = 1
    /\ pl_ordered = <<>>
    /\ pl_stores = 3
    /\ buffer_ = <<>>
    /\ \A handler \in 1..3 : pl_confirms[handler] = <<"double_spend">>

\* Further cases reached: replaced blocks and a pool emptied with
\* blockchain_reorganized ...
C39_EmptiedAfterReplacement ==
    /\ pl_last.op = "reorganize"
    /\ pl_last.replaced_blocks # <<>>
    /\ pl_ordered = <<>>
    /\ pl_subscribed = 1
    /\ buffer_ = <<>>
    /\ pl_confirms[1] = <<"blockchain_reorganized">>
    /\ pl_confirms[2] = <<"blockchain_reorganized">>

\* ... a notification with an error, after which the pool is stopped and
\* subscribed no more ...
C39_StoppedByError ==
    /\ pl_last.op = "reorganize"
    /\ pl_last.ec = "operation_failed"
    /\ stopped_
    /\ pl_subscribed = 0
    /\ pl_halts = 1
    /\ buffer_ # <<>>

\* ... and new blocks that confirm tx_4 and tx_2 and double-spend tx_1.
C39_ConfirmedAndDoubleSpent ==
    /\ pl_last.op = "reorganize"
    /\ Len(pl_last.new_blocks) = 2
    /\ pl_ordered = <<>>
    /\ pl_capacity = 3
    /\ buffer_ = <<>>
    /\ pl_confirms[1] = <<"double_spend">>
    /\ pl_confirms[2] = <<"success">>
    /\ pl_confirms[3] = <<"success">>

(***************************************************************************)
(* Specifications                                                          *)
(***************************************************************************)

Init ==
    /\ InitSlab
    /\ InitShard
    /\ InitSeqlock
    /\ InitDbNew
    /\ InitMmLinux
    /\ InitWp
    /\ InitLarge
    /\ InitMultimap
    /\ InitChain
    /\ InitPool

\* The same, with push and pop started on every chain of InitTables.
InitChains ==
    /\ InitSlab
    /\ InitShard
    /\ InitSeqlock
    /\ InitDb
    /\ InitMmLinux
    /\ InitWp
    /\ InitLarge
    /\ InitMultimap
    /\ InitChain
    /\ InitPool

\* The same as Init, with the mapped file in either build.
InitBuilds ==
    /\ InitSlab
    /\ InitShard
    /\ InitSeqlock
    /\ InitDbNew
    /\ InitMm
    /\ InitWp
    /\ InitLarge
    /\ InitMultimap
    /\ InitChain
    /\ InitPool

SpecSlab == Init /\ [][NextSlab]_vars

SpecSlabCut == Init /\ [][NextSlabCut]_vars

SpecShard == Init /\ [][NextShard]_vars

SpecShardCut == Init /\ [][NextShardCut]_vars

\* The operations of hdb_shard, unlink(0) among them.
SpecShardZero == Init /\ [][NextShard \/ ShardUnlinkZero]_vars

SpecSeqlock == Init /\ [][NextSeqlock]_vars

SpecDb == InitChains /\ [][NextDb]_vars

SpecDbCut == InitChains /\ [][NextDbCut]_vars

SpecMm == InitBuilds /\ [][NextMm]_vars

SpecWritePath == InitBuilds /\ [][NextWp]_vars

SpecLarge == Init /\ [][NextLarge]_vars

SpecMultimap == Init /\ [][NextMultimap]_vars

\* The operations of hdb_shard with sync given any height.
SpecShardAny == Init /\ [][NextShardAny]_vars

SpecChain == Init /\ [][NextChain]_vars

\* release runs on the write strand and is not held up.
SpecChainFair ==
    /\ Init
    /\ [][NextChain]_vars
    /\ WF_vars(\E faults \in BOOLEAN : ReleasePop(faults))
    /\ WF_vars(ReleaseReturn)

\* The same as Init, with a pool that is not stopped.
InitRunning ==
    /\ InitSlab
    /\ InitShard
    /\ InitSeqlock
    /\ InitDbNew
    /\ InitMmLinux
    /\ InitWp
    /\ InitLarge
    /\ InitMultimap
    /\ InitChain
    /\ InitPoolRunning

SpecPool == Init /\ [][NextPool]_vars

SpecPoolRunning == InitRunning /\ [][NextPoolRunning]_vars

\* The reader's thread and a write under way are scheduled fairly; nothing
\* makes the writer begin a write.
SpecSeqlockFair ==
    /\ Init
    /\ [][NextSeqlock]_vars
    /\ WF_vars(WriteGrow)
    /\ WF_vars(WriteCell)
    /\ WF_vars(FinishWrite)
    /\ WF_vars(FetchBegin)
    /\ WF_vars(FetchRetry)
    /\ WF_vars(FetchRead)
    /\ WF_vars(FetchFinish)

====
